---- MODULE Spec2Model ----
(***************************************************************************)
(* A model of the timing-dependent utilities of ts-utils                   *)
(* (src/src/runtime/function.ts and src/src/runtime/promise.ts).           *)
(*                                                                         *)
(* Each family of utilities has a specification of its own:                *)
(*   SpecWrapper  debounce / throttle wrappers, their timers and cancel    *)
(*   SpecOnce     once                                                     *)
(*   SpecRetry    retry (with sleep)                                       *)
(*   SpecTimeout  timeout (Promise.race of an operation and a timer)       *)
(* and the stateless helpers of errors.ts, object.ts, array.ts, string.ts,  *)
(* size.ts, normalize.ts, data.ts and the colour, case and URL helpers,    *)
(* each under a specification that draws the helper's arguments in its     *)
(* initial state and applies the helper once:                              *)
(*   SpecCatchError, SpecMerge, SpecDiff, SpecFlatten, SpecChunk,          *)
(*   SpecUnique, SpecArrays, SpecHTML, SpecBytes, SpecNormalize, SpecText, *)
(*   SpecColour, SpecIsEqual, SpecCase, SpecBuildUrl                       *)
(* The variables of the other families stay at their initial value.        *)
(***************************************************************************)
EXTENDS Integers, Sequences, FiniteSets, TLC

VARIABLES
    \* ---- debounce / throttle ----
    kind,          \* which factory built the wrapper: "debounce" or "throttle"
    ms,            \* the wrapper's delay / interval argument
    now,           \* the clock (Date.now(), and the timers' time base)
    w,             \* the wrapper: closure variables, its scheduled callbacks, fn's log
    sh,            \* a second wrapper that is given the same calls and timer firings
                   \* but is spared every cancel() made with nothing pending
    wcalls,        \* history: the wrapper calls made so far, <<[args, at]>>
    cancelled,     \* history: cancel() was called at least once
    quiet,         \* history: cancel() was called and the wrapper not called since
    callsAtCancel, \* history: Len(w.calls) right after the latest cancel()
    nopCancel,     \* history: some cancel() was made with nothing pending
    \* ---- once ----
    o,             \* the closure of once: called, result
    oFn,           \* fn's invocations through the wrapper, <<[args, out]>>
    oRets,         \* history: the wrapper calls and how each ended, <<[args, out]>>
    \* ---- retry ----
    r,             \* the activation of retry: options, attempt, lastError, where it is
    rLog,          \* the settled attempts of fn in order, <<[ok, val]>>
    rStarted,      \* the number of times fn was invoked
    rWaits,        \* the durations passed to sleep, in order
    \* ---- timeout ----
    to,            \* timeout's arguments ms, message and the promise it returned
    op,            \* the raced operation
    toTimer,       \* timeout's timer: "armed" or "fired"
    toLog,         \* history: the settlements the returned promise reported
    \* ---- the stateless helpers (errors, object, array, string, size, normalize) ----
    call,          \* the helper under call: its name and its arguments
    ret            \* how the call ended: its result (and the heap it left)

wrapperVars ==
    <<kind, ms, now, w, sh, wcalls, cancelled, quiet, callsAtCancel, nopCancel>>

onceVars == <<o, oFn, oRets>>

retryVars == <<r, rLog, rStarted, rWaits>>

timeoutVars == <<to, op, toTimer, toLog>>

callVars == <<call, ret>>

vars == <<wrapperVars, onceVars, retryVars, timeoutVars, callVars>>

(***************************************************************************)
(* Bounds of the model.                                                    *)
(***************************************************************************)
MaxMs == 2
MaxTime == 4
MaxCalls == 3
MaxOnceCalls == 4
MaxRetries == 3
MaxDelay == 2

\* Two distinguishable argument lists are enough to tell which call's
\* arguments reached fn.
Args == {"a", "b"}

Undefined == 0

(***************************************************************************)
(* The event loop's timers.  A scheduled callback is [id, due, args]; a    *)
(* handle is the id.  clearTimeout of a handle that is no longer scheduled *)
(* (or was never) does nothing.                                            *)
(***************************************************************************)
setTimeout(st, args, delay, t) ==
    [st EXCEPT !.timers = @ \cup {[id |-> st.nextId, due |-> t + delay, args |-> args]},
               !.nextId = @ + 1]

clearTimeout(st, id) ==
    [st EXCEPT !.timers = {x \in @ : x.id # id}]

\* fn(...args): the log of fn's invocations.  `during` is the ordinal of the
\* wrapper call inside which fn ran (synchronously), 0 for a timer callback.
fn(st, args, t, k) ==
    [st EXCEPT !.calls = Append(@, [args |-> args, at |-> t, during |-> k])]

(***************************************************************************)
(* debounce                                                                *)
(***************************************************************************)
debounce ==
    [timer |-> Undefined, timers |-> {}, nextId |-> 1, calls |-> <<>>]

\* Mutant: the pending timer is not cleared before a new one is armed.
debounced_noClear(st, args, t, k) ==
    [setTimeout(st, args, ms, t) EXCEPT !.timer = st.nextId]

debounced(st, args, t, k) ==
    LET c == IF st.timer # Undefined THEN clearTimeout(st, st.timer) ELSE st
    IN  [setTimeout(c, args, ms, t) EXCEPT !.timer = c.nextId]

debounceTimer(st, tm, t) ==
    fn([st EXCEPT !.timers = @ \ {tm}], tm.args, t, 0)

\* Mutant: cancel forgets the handle without clearing the scheduled callback.
debouncedCancel_keepTimer(st) ==
    [st EXCEPT !.timer = Undefined]

debouncedCancel(st) ==
    LET c == IF st.timer # Undefined THEN clearTimeout(st, st.timer) ELSE st
    IN  [c EXCEPT !.timer = Undefined]

(***************************************************************************)
(* throttle                                                                *)
(***************************************************************************)
throttle ==
    [timer |-> Undefined, lastRun |-> 0, timers |-> {}, nextId |-> 1, calls |-> <<>>]

\* Mutant: the immediate path does not record the time of the run.
throttled_noLastRun(st, args, t, k) ==
    LET remaining == ms - (t - st.lastRun) IN
    IF remaining <= 0
    THEN LET c == IF st.timer # Undefined
                  THEN [clearTimeout(st, st.timer) EXCEPT !.timer = Undefined]
                  ELSE st
         IN  fn(c, args, t, k)
    ELSE IF st.timer = Undefined
         THEN [setTimeout(st, args, remaining, t) EXCEPT !.timer = st.nextId]
         ELSE st

\* Mutant: a call inside the interval drops the trailing call that is pending.
throttled_dropsPending(st, args, t, k) ==
    LET remaining == ms - (t - st.lastRun) IN
    IF remaining <= 0
    THEN LET c == IF st.timer # Undefined
                  THEN [clearTimeout(st, st.timer) EXCEPT !.timer = Undefined]
                  ELSE st
         IN  fn([c EXCEPT !.lastRun = t], args, t, k)
    ELSE IF st.timer = Undefined
         THEN [setTimeout(st, args, remaining, t) EXCEPT !.timer = st.nextId]
         ELSE [clearTimeout(st, st.timer) EXCEPT !.timer = Undefined]

throttled(st, args, t, k) ==
    LET remaining == ms - (t - st.lastRun) IN
    IF remaining <= 0
    THEN LET c == IF st.timer # Undefined
                  THEN [clearTimeout(st, st.timer) EXCEPT !.timer = Undefined]
                  ELSE st
         IN  fn([c EXCEPT !.lastRun = t], args, t, k)
    ELSE IF st.timer = Undefined
         THEN [setTimeout(st, args, remaining, t) EXCEPT !.timer = st.nextId]
         ELSE st

\* Mutant: the trailing call does not record the time of the run.
throttleTimer_noLastRun(st, tm, t) ==
    fn([st EXCEPT !.timers = @ \ {tm}, !.timer = Undefined], tm.args, t, 0)

throttleTimer(st, tm, t) ==
    fn([st EXCEPT !.timers = @ \ {tm}, !.lastRun = t, !.timer = Undefined],
       tm.args, t, 0)

throttledCancel(st) ==
    LET c == IF st.timer # Undefined THEN clearTimeout(st, st.timer) ELSE st
    IN  [c EXCEPT !.timer = Undefined]

(***************************************************************************)
(* The wrapper's operations as steps of the program.                       *)
(***************************************************************************)
WrapperIdle ==
    /\ kind = "none" /\ ms = 0 /\ w = <<>> /\ sh = <<>> /\ wcalls = <<>>
    /\ cancelled = FALSE /\ quiet = FALSE /\ callsAtCancel = 0 /\ nopCancel = FALSE

OnceIdle == o = <<>> /\ oFn = <<>> /\ oRets = <<>>

RetryIdle == r = <<>> /\ rLog = <<>> /\ rStarted = 0 /\ rWaits = <<>>

TimeoutIdle == to = <<>> /\ op = <<>> /\ toTimer = "none" /\ toLog = <<>>

CallIdle == call = <<>> /\ ret = <<>>

WrapperInit ==
    /\ OnceIdle /\ RetryIdle /\ TimeoutIdle /\ CallIdle
    /\ kind \in {"debounce", "throttle"}
    /\ ms \in 0..MaxMs
    /\ now = 0
    /\ w = (IF kind = "debounce" THEN debounce ELSE throttle)
    /\ sh = w
    /\ wcalls = <<>>
    /\ cancelled = FALSE
    /\ quiet = FALSE
    /\ callsAtCancel = 0
    /\ nopCancel = FALSE

Invoke(st, args, t, k) ==
    IF kind = "debounce" THEN debounced(st, args, t, k) ELSE throttled(st, args, t, k)

TimerCallback(st, tm, t) ==
    IF kind = "debounce" THEN debounceTimer(st, tm, t) ELSE throttleTimer(st, tm, t)

CancelOf(st) ==
    IF kind = "debounce" THEN debouncedCancel(st) ELSE throttledCancel(st)

\* The wrapper is called with `args`.
Call ==
    /\ Len(wcalls) < MaxCalls
    /\ \E args \in Args :
          /\ w' = Invoke(w, args, now, Len(wcalls) + 1)
          /\ sh' = Invoke(sh, args, now, Len(wcalls) + 1)
          /\ wcalls' = Append(wcalls, [args |-> args, at |-> now])
    /\ quiet' = FALSE
    /\ UNCHANGED <<kind, ms, now, cancelled, callsAtCancel, nopCancel>>
    /\ UNCHANGED <<onceVars, retryVars, timeoutVars, callVars>>

\* wrapper.cancel()
Cancel ==
    /\ w' = CancelOf(w)
    /\ sh' = (IF w.timers = {} THEN sh ELSE CancelOf(sh))
    /\ cancelled' = TRUE
    /\ quiet' = TRUE
    /\ callsAtCancel' = Len(w.calls)
    /\ nopCancel' = (nopCancel \/ w.timers = {})
    /\ UNCHANGED <<kind, ms, now, wcalls>>
    /\ UNCHANGED <<onceVars, retryVars, timeoutVars, callVars>>

\* The event loop runs a scheduled callback, at or after its due time.
Fire ==
    /\ \E tm \in w.timers :
          /\ tm.due <= now
          /\ w' = TimerCallback(w, tm, now)
          /\ sh' = (IF tm \in sh.timers THEN TimerCallback(sh, tm, now) ELSE sh)
    /\ UNCHANGED <<kind, ms, now, wcalls, cancelled, quiet, callsAtCancel, nopCancel>>
    /\ UNCHANGED <<onceVars, retryVars, timeoutVars, callVars>>

\* Time passes.
Tick ==
    /\ now < MaxTime
    /\ now' = now + 1
    /\ UNCHANGED <<kind, ms, w, sh, wcalls, cancelled, quiet, callsAtCancel, nopCancel>>
    /\ UNCHANGED <<onceVars, retryVars, timeoutVars, callVars>>

WrapperNext == Call \/ Cancel \/ Fire \/ Tick

SpecWrapper == WrapperInit /\ [][WrapperNext]_vars

(***************************************************************************)
(* once                                                                    *)
(***************************************************************************)
\* The values fn may return; the first four are falsy.
Values == {"undefined", "null", "0", "''", "'result'"}

Falsy(v) == v \in {"undefined", "null", "0", "''"}

\* How one invocation of fn ends: it returns a value, or it throws.
Outcomes ==
    [type : {"return"}, val : Values] \cup [type : {"throw"}, val : {"Error"}]

\* `let called = false; let result` -- result holds undefined until assigned.
once == [called |-> FALSE, result |-> "undefined"]

\* Mutant: the guard tests the cached result instead of the called flag.
wrapped_testsResult(st, args, out) ==
    IF Falsy(st.result)
    THEN [st      |-> [called |-> TRUE,
                       result |-> IF out.type = "return" THEN out.val ELSE st.result],
          invoked |-> TRUE,
          out     |-> out]
    ELSE [st      |-> st,
          invoked |-> FALSE,
          out     |-> [type |-> "return", val |-> st.result]]

\* Mutant: the wrapper is marked as called only after fn has returned.
wrapped_marksAfter(st, args, out) ==
    IF ~st.called
    THEN [st      |-> [called |-> out.type = "return",
                       result |-> IF out.type = "return" THEN out.val ELSE st.result],
          invoked |-> TRUE,
          out     |-> out]
    ELSE [st      |-> st,
          invoked |-> FALSE,
          out     |-> [type |-> "return", val |-> st.result]]

\* One call of the function once returns.  `out` is how fn would end if it is
\* invoked by this call.  The result: the closure afterwards, whether fn was
\* invoked, and how the call ends.  When fn throws, `called` is already set
\* and the assignment to result does not happen.
wrapped(st, args, out) ==
    IF ~st.called
    THEN [st      |-> [called |-> TRUE,
                       result |-> IF out.type = "return" THEN out.val ELSE st.result],
          invoked |-> TRUE,
          out     |-> out]
    ELSE [st      |-> st,
          invoked |-> FALSE,
          out     |-> [type |-> "return", val |-> st.result]]

OnceInit ==
    /\ WrapperIdle /\ RetryIdle /\ TimeoutIdle /\ CallIdle
    /\ now = 0
    /\ o = once
    /\ oFn = <<>>
    /\ oRets = <<>>

\* The wrapper is called with `args`.
OnceCall ==
    /\ Len(oRets) < MaxOnceCalls
    /\ \E args \in Args, out \in Outcomes :
          LET c == wrapped(o, args, out) IN
          /\ o' = c.st
          /\ oFn' = (IF c.invoked THEN Append(oFn, [args |-> args, out |-> out]) ELSE oFn)
          /\ oRets' = Append(oRets, [args |-> args, out |-> c.out])
    /\ UNCHANGED <<wrapperVars, retryVars, timeoutVars, callVars>>

OnceNext == OnceCall

SpecOnce == OnceInit /\ [][OnceNext]_vars

(***************************************************************************)
(* retry                                                                   *)
(***************************************************************************)
\* What fn may resolve with, and what it may reject with.
Results == {"v1", "v2"}

Errors == {"e1", "e2"}

RECURSIVE MathPow(_, _)
MathPow(b, e) == IF e = 0 THEN 1 ELSE b * MathPow(b, e - 1)

\* Mutant: the backoff exponent is the index of the next attempt.
waitTime_nextIndex(backoff, delay, attempt) ==
    IF backoff THEN delay * MathPow(2, attempt + 1) ELSE delay

\* const waitTime = backoff ? delay * Math.pow(2, attempt) : delay
waitTime(backoff, delay, attempt) ==
    IF backoff THEN delay * MathPow(2, attempt) ELSE delay

\* retry(fn, {retries, delay, backoff}) before its first step.  pc is where
\* the async function stands: "start", "fn" (awaiting fn()), "sleep"
\* (awaiting sleep(waitTime)), "resolved" or "rejected"; wait is the duration
\* of the sleep in progress.
retry(retries, delay, backoff) ==
    [retries |-> retries, delay |-> delay, backoff |-> backoff,
     attempt |-> 0, lastError |-> "undefined", pc |-> "start",
     wait |-> 0, result |-> "undefined"]

\* The head of the for loop: `attempt <= retries` enters the body, which
\* calls fn; otherwise the loop is left and `throw lastError` rejects.
loopHead(st) ==
    IF st.attempt <= st.retries
    THEN [st EXCEPT !.pc = "fn"]
    ELSE [st EXCEPT !.pc = "rejected", !.result = st.lastError]

\* `return await fn()` when fn's promise resolved with `value`.
returned(st, value) ==
    [st EXCEPT !.pc = "resolved", !.result = value]

\* Mutant: only the first failure is remembered.
caught_keepsFirst(st, error) ==
    LET c == IF st.lastError = "undefined" THEN [st EXCEPT !.lastError = error] ELSE st IN
    IF c.attempt < c.retries
    THEN [c EXCEPT !.pc = "sleep", !.wait = waitTime(c.backoff, c.delay, c.attempt)]
    ELSE loopHead([c EXCEPT !.attempt = @ + 1])

\* The catch block when fn threw or its promise rejected with `error`, up to
\* the next await (the sleep, or after attempt++ the next call of fn) or to
\* the final throw.
caught(st, error) ==
    LET c == [st EXCEPT !.lastError = error] IN
    IF c.attempt < c.retries
    THEN [c EXCEPT !.pc = "sleep", !.wait = waitTime(c.backoff, c.delay, c.attempt)]
    ELSE loopHead([c EXCEPT !.attempt = @ + 1])

\* After `await sleep(waitTime)`: attempt++ and the loop head.
slept(st) ==
    loopHead([st EXCEPT !.attempt = @ + 1])

RetryInit ==
    /\ WrapperIdle /\ OnceIdle /\ TimeoutIdle /\ CallIdle
    /\ now = 0
    /\ \E retries \in 0..MaxRetries, delay \in 0..MaxDelay, backoff \in BOOLEAN :
          r = retry(retries, delay, backoff)
    /\ rLog = <<>>
    /\ rStarted = 0
    /\ rWaits = <<>>

Started(st) == IF st.pc = "fn" THEN 1 ELSE 0

\* retry is called: it runs to its first await.
RetryStart ==
    /\ r.pc = "start"
    /\ r' = loopHead(r)
    /\ rStarted' = rStarted + Started(r')
    /\ UNCHANGED <<rLog, rWaits>>
    /\ UNCHANGED <<wrapperVars, onceVars, timeoutVars, callVars>>

\* The attempt in progress succeeds.
FnResolves ==
    /\ r.pc = "fn"
    /\ \E value \in Results :
          /\ r' = returned(r, value)
          /\ rLog' = Append(rLog, [ok |-> TRUE, val |-> value])
    /\ UNCHANGED <<rStarted, rWaits>>
    /\ UNCHANGED <<wrapperVars, onceVars, timeoutVars, callVars>>

\* The attempt in progress fails.
FnRejects ==
    /\ r.pc = "fn"
    /\ \E error \in Errors :
          /\ r' = caught(r, error)
          /\ rLog' = Append(rLog, [ok |-> FALSE, val |-> error])
    /\ rStarted' = rStarted + Started(r')
    /\ rWaits' = (IF r'.pc = "sleep" THEN Append(rWaits, r'.wait) ELSE rWaits)
    /\ UNCHANGED <<wrapperVars, onceVars, timeoutVars, callVars>>

\* sleep's timer fires and retry goes on.
SleepDone ==
    /\ r.pc = "sleep"
    /\ r' = slept(r)
    /\ rStarted' = rStarted + Started(r')
    /\ UNCHANGED <<rLog, rWaits>>
    /\ UNCHANGED <<wrapperVars, onceVars, timeoutVars, callVars>>

RetryNext == RetryStart \/ FnResolves \/ FnRejects \/ SleepDone

SpecRetry == RetryInit /\ [][RetryNext]_vars

(***************************************************************************)
(* timeout                                                                 *)
(***************************************************************************)
\* How the raced operation may end.
Settlements ==
    { [state |-> "fulfilled", value |-> "done"],
      [state |-> "rejected", value |-> "original error"] }

\* The optional message argument: <<>> when omitted, else <<text>>.
Messages == {<<>>, <<"">>, <<"Custom timeout message">>}

\* Mutant: a falsy message falls back to the default (|| for ??).
timeoutError_orDefault(ms_, message) ==
    IF message # <<>> /\ message[1] # ""
    THEN message[1]
    ELSE "Timed out after " \o ToString(ms_) \o "ms"

\* new Error(message ?? `Timed out after ${ms}ms`), as its message text.
timeoutError(ms_, message) ==
    IF message # <<>>
    THEN message[1]
    ELSE "Timed out after " \o ToString(ms_) \o "ms"

\* Mutant: a later settlement replaces the outcome already taken.
race_lastWins(p, state, value) ==
    [p EXCEPT !.state = state, !.value = value]

\* Promise.race: the returned promise takes the first settlement among its
\* inputs; resolving or rejecting it again does nothing.
race(p, state, value) ==
    IF p.state = "pending" THEN [p EXCEPT !.state = state, !.value = value] ELSE p

\* timeout(promise, ms, message) once the call has returned and the jobs it
\* queued have run: a promise that is already settled has been taken by the
\* race, before any timer can fire.  `will` is how the operation ends when
\* left alone; at and afterTimer record when it did.
timeout(promise, ms_, message) ==
    LET p == [ms |-> ms_, message |-> message, state |-> "pending", value |-> "undefined"]
    IN  [to |-> IF promise.state # "pending"
                THEN race(p, promise.state, promise.value)
                ELSE p,
         op |-> promise]

\* Mutant: the timer's callback also aborts the operation.
timerFires_abortsOp(s) ==
    [s EXCEPT !.to = race(s.to, "rejected", timeoutError(s.to.ms, s.to.message)),
              !.op.state = IF @ = "pending" THEN "aborted" ELSE @]

\* The setTimeout callback: reject(new Error(...)), which the race sees.
timerFires(s) ==
    [s EXCEPT !.to = race(s.to, "rejected", timeoutError(s.to.ms, s.to.message))]

\* The operation settles by itself, and the race sees it.
opSettles(s, t, fired) ==
    [s EXCEPT !.op.state = s.op.will.state, !.op.value = s.op.will.value,
              !.op.at = t, !.op.afterTimer = fired,
              !.to = race(s.to, s.op.will.state, s.op.will.value)]

Reported(p, q, log) ==
    IF <<q.state, q.value>> # <<p.state, p.value>>
    THEN Append(log, [state |-> q.state, value |-> q.value])
    ELSE log

TimeoutInit ==
    /\ WrapperIdle /\ OnceIdle /\ RetryIdle /\ CallIdle
    /\ now = 0
    /\ \E will \in Settlements, early \in BOOLEAN,
          ms_ \in 0..MaxMs, message \in Messages :
          LET promise == [will |-> will,
                          state |-> IF early THEN will.state ELSE "pending",
                          value |-> IF early THEN will.value ELSE "undefined",
                          at |-> 0, afterTimer |-> FALSE]
              s == timeout(promise, ms_, message)
          IN  /\ to = s.to
              /\ op = s.op
              /\ toLog = (IF s.to.state # "pending"
                          THEN <<[state |-> s.to.state, value |-> s.to.value]>>
                          ELSE <<>>)
    /\ toTimer = "armed"

\* The raced operation resolves or rejects.
OpSettles ==
    /\ op.state = "pending"
    /\ LET s == opSettles([to |-> to, op |-> op], now, toTimer = "fired") IN
          /\ to' = s.to
          /\ op' = s.op
          /\ toLog' = Reported(to, s.to, toLog)
    /\ UNCHANGED <<now, toTimer>>
    /\ UNCHANGED <<kind, ms, w, sh, wcalls, cancelled, quiet, callsAtCancel, nopCancel>>
    /\ UNCHANGED <<onceVars, retryVars, callVars>>

\* The event loop runs timeout's timer, at or after its due time.
TimerFires ==
    /\ toTimer = "armed"
    /\ now >= to.ms
    /\ LET s == timerFires([to |-> to, op |-> op]) IN
          /\ to' = s.to
          /\ op' = s.op
          /\ toLog' = Reported(to, s.to, toLog)
    /\ toTimer' = "fired"
    /\ UNCHANGED now
    /\ UNCHANGED <<kind, ms, w, sh, wcalls, cancelled, quiet, callsAtCancel, nopCancel>>
    /\ UNCHANGED <<onceVars, retryVars, callVars>>

\* Time passes.
TimeoutTick ==
    /\ now < MaxTime
    /\ now' = now + 1
    /\ UNCHANGED <<kind, ms, w, sh, wcalls, cancelled, quiet, callsAtCancel, nopCancel>>
    /\ UNCHANGED <<onceVars, retryVars, timeoutVars, callVars>>

TimeoutNext == OpSettles \/ TimerFires \/ TimeoutTick

SpecTimeout == TimeoutInit /\ [][TimeoutNext]_vars

(***************************************************************************)
(* errors.ts: catchError.                                                  *)
(*                                                                         *)
(* The function passed to catchError either resolves with a value or       *)
(* fails (it throws, or the promise it returned rejects) with a value e.   *)
(* A thrown value is an instance of one of the error classes, or a         *)
(* primitive (throw 'oops'), which is an instance of no class.             *)
(***************************************************************************)
MaxCatch == 2

Classes == {"Error", "TypeError", "RangeError", "SyntaxError"}

\* The prototype chain: the built-in error classes extend Error.
Extends(c) == IF c = "Error" THEN "Object" ELSE "Error"

Thrown == [of : Classes \cup {"primitive"}]

Resolved == {42, 0}

FnOutcomes ==
    [type : {"resolve"}, value : Resolved] \cup [type : {"reject"}, value : Thrown]

\* errorsToCatch: omitted, or a list of classes (possibly empty)
ErrorsToCatch ==
    {[given |-> FALSE, list |-> <<>>]} \cup
    [given : {TRUE}, list : UNION {[1..n -> Classes] : n \in 0..MaxCatch}]

RECURSIVE instanceof(_, _)
instanceof(c, e) ==
    IF c \notin Classes THEN FALSE
    ELSE IF c = e THEN TRUE
    ELSE instanceof(Extends(c), e)

fulfilled(value) == [state |-> "fulfilled", value |-> value]
rejected(reason) == [state |-> "rejected", value |-> reason]

catchError_catchesAll(outcome, errorsToCatch) ==
    IF outcome.type = "resolve"
    THEN fulfilled([data |-> outcome.value, ok |-> TRUE])
    ELSE fulfilled([error |-> outcome.value, ok |-> FALSE])

\* the promise catchError returns, settled
catchError(outcome, errorsToCatch) ==
    IF outcome.type = "resolve"
    THEN fulfilled([data |-> outcome.value, ok |-> TRUE])
    ELSE LET error == outcome.value
         IN  IF \/ ~errorsToCatch.given
                \/ \E i \in 1..Len(errorsToCatch.list) :
                       instanceof(error.of, errorsToCatch.list[i])
             THEN fulfilled([error |-> error, ok |-> FALSE])
             ELSE rejected(error)

CatchErrorInit ==
    /\ WrapperIdle /\ OnceIdle /\ RetryIdle /\ TimeoutIdle
    /\ now = 0
    /\ call \in [f : {"catchError"}, outcome : FnOutcomes, errorsToCatch : ErrorsToCatch]
    /\ ret = <<>>

CatchErrorSettles ==
    /\ call.f = "catchError" /\ ret = <<>>
    /\ ret' = catchError(call.outcome, call.errorsToCatch)
    /\ UNCHANGED call
    /\ UNCHANGED <<wrapperVars, onceVars, retryVars, timeoutVars>>

CatchErrorNext == CatchErrorSettles

SpecCatchError == CatchErrorInit /\ [][CatchErrorNext]_vars

(***************************************************************************)
(* object.ts: the heap of objects merge, diff, flattenObject and           *)
(* unflattenObject work on.                                                *)
(*                                                                         *)
(* A JavaScript value is a primitive or a reference to an object of the    *)
(* heap; an object has an identity (its address), a constructor, and its   *)
(* own enumerable properties (for an array: its items).  A property key is *)
(* a string, kept as the sequence of its characters so that '.' can be     *)
(* joined in and split at.                                                 *)
(***************************************************************************)
Num(n) == [t |-> "number", v |-> n]
Null == [t |-> "null", v |-> 0]
Undef == [t |-> "undefined", v |-> 0]
Ref(a) == [t |-> "object", v |-> a]

Obj(props) == [kind |-> "Object", props |-> props, items |-> <<>>]
ArrayOf(items) == [kind |-> "Array", props |-> <<>>, items |-> items]

KA == <<"a">>
KB == <<"b">>

\* obj[key]: undefined when obj has no such property
get(h, a, key) == IF key \in DOMAIN h[a].props THEN h[a].props[key] ELSE Undef

\* obj[key] = val
set(h, a, key, val) == [h EXCEPT ![a].props = (key :> val) @@ @]

\* Object.keys(obj)
ObjectKeys(h, a) == DOMAIN h[a].props

\* val !== null && typeof val === 'object' && val.constructor === Object
isPlainObject(h, val) == val.t = "object" /\ h[val.v].kind = "Object"

(***************************************************************************)
(* merge(...objects).  The loop over Object.keys visits the keys in        *)
(* insertion order; what is stored under one key never depends on another  *)
(* key, so the model visits them in an arbitrary fixed order.              *)
(***************************************************************************)
RECURSIVE merge(_, _)
RECURSIVE mergeKeys(_, _, _, _)
RECURSIVE mergeObjects(_, _, _, _)

\* the body of the inner loop, with the nested objects merged into the
\* object result[key] already refers to
mergeKey_inPlace(h, result, key, val) ==
    IF isPlainObject(h, val) /\ isPlainObject(h, get(h, result, key))
    THEN mergeKeys(h, get(h, result, key).v, val.v, ObjectKeys(h, val.v))
    ELSE set(h, result, key, val)

\* the body of the inner loop: one key of one source
mergeKey(h, result, key, val) ==
    IF isPlainObject(h, val) /\ isPlainObject(h, get(h, result, key))
    THEN LET m == merge(h, <<get(h, result, key).v, val.v>>)
         IN  set(m.heap, result, key, m.value)
    ELSE set(h, result, key, val)

mergeKeys(h, result, obj, keys) ==
    IF keys = {} THEN h
    ELSE LET key == CHOOSE k \in keys : TRUE
         IN  mergeKeys(mergeKey(h, result, key, get(h, obj, key)),
                       result, obj, keys \ {key})

mergeObjects(h, result, objects, i) ==
    IF i > Len(objects) THEN h
    ELSE mergeObjects(mergeKeys(h, result, objects[i], ObjectKeys(h, objects[i])),
                      result, objects, i + 1)

\* const result = {}; ...; return result
merge(h, objects) ==
    LET h1 == Append(h, Obj(<<>>))
        result == Len(h1)
    IN  [heap |-> mergeObjects(h1, result, objects, 1), value |-> Ref(result)]

(***************************************************************************)
(* The sources merge is given: up to MaxSources mappings, each with        *)
(* scalars, null, an array, and plain mappings nested up to three deep.    *)
(* A source is laid out as four objects: the source itself, a mapping      *)
(* nested in it, a mapping nested in that, and an array.                   *)
(***************************************************************************)
MaxSources == 3

Inner == {Obj(KA :> Num(1)), Obj(KB :> Num(1))}

\* <<nested mapping, mapping nested in it>>, the first at address base
Nested(base) ==
    {<<Obj(p), Obj(<<>>)>> :
        p \in {<<>>, KA :> Num(1), KB :> Num(1)}}
    \cup {<<Obj(KA :> Ref(base + 1)), g>> : g \in Inner}

\* the shapes of a source, laid out from address 1
Sources ==
    LET array == ArrayOf(<<Num(1), Num(2)>>)
        arrayAt == Len(<<1, 1, 1>>) + 1
    IN  {<<Obj(pa @@ pb), Obj(<<>>), Obj(<<>>), array>> :
            pa \in {<<>>, KA :> Num(1)}, pb \in {<<>>, KB :> Num(2)}}
        \cup {<<Obj(pa), Obj(<<>>), Obj(<<>>), array>> :
            pa \in {KA :> Null, KA :> Ref(arrayAt)}}
        \cup {<<Obj(KA :> Ref(1 + 1))>> \o n \o <<array>> : n \in Nested(1 + 1)}

\* an object moved off addresses up the heap, with the references in it
Placed(cell, off) ==
    [cell EXCEPT !.props = [k \in DOMAIN @ |->
        IF @[k].t = "object" THEN Ref(@[k].v + off) ELSE @[k]]]

Front(s) == SubSeq(s, 1, Len(s) - 1)

\* the heap holding the given shapes one after the other
RECURSIVE HeapOf(_)
HeapOf(shapes) ==
    IF shapes = <<>> THEN <<>>
    ELSE LET h == HeapOf(Front(shapes))
             s == shapes[Len(shapes)]
         IN  h \o [i \in 1..Len(s) |-> Placed(s[i], Len(h))]

\* the address of the i-th shape's first object
RECURSIVE RootAt(_, _)
RootAt(shapes, i) ==
    IF i = 1 THEN 1 ELSE RootAt(shapes, i - 1) + Len(shapes[i - 1])

MergeInit ==
    /\ WrapperIdle /\ OnceIdle /\ RetryIdle /\ TimeoutIdle
    /\ now = 0
    /\ \E n \in 0..MaxSources : \E shapes \in [1..n -> Sources] :
           call = [f |-> "merge", heap |-> HeapOf(shapes),
                   objects |-> [i \in 1..n |-> RootAt(shapes, i)]]
    /\ ret = <<>>

MergeReturns ==
    /\ call.f = "merge" /\ ret = <<>>
    /\ ret' = merge(call.heap, call.objects)
    /\ UNCHANGED call
    /\ UNCHANGED <<wrapperVars, onceVars, retryVars, timeoutVars>>

MergeNext == MergeReturns

SpecMerge == MergeInit /\ [][MergeNext]_vars

(***************************************************************************)
(* object.ts: deepEqual and diff.                                          *)
(***************************************************************************)
\* typeof
typeof(val) == IF val.t = "null" THEN "object" ELSE val.t

\* Array.isArray
isArray(h, val) == val.t = "object" /\ h[val.v].kind = "Array"

isPlainObj(h, val) == val.t = "object" /\ h[val.v].kind = "Object"

RECURSIVE deepEqual(_, _, _)
deepEqual(h, a, b) ==
    IF a = b THEN TRUE
    ELSE IF a.t \in {"null", "undefined"} \/ b.t \in {"null", "undefined"} THEN FALSE
    ELSE IF typeof(a) # typeof(b) THEN FALSE
    ELSE IF isArray(h, a) /\ isArray(h, b)
    THEN /\ Len(h[a.v].items) = Len(h[b.v].items)
         /\ \A i \in 1..Len(h[a.v].items) :
                deepEqual(h, h[a.v].items[i], h[b.v].items[i])
    ELSE IF isPlainObj(h, a) /\ isPlainObj(h, b)
    THEN LET keysA == ObjectKeys(h, a.v)
             keysB == ObjectKeys(h, b.v)
         IN  /\ Cardinality(keysA) = Cardinality(keysB)
             /\ \A k \in keysA : k \in keysB /\ deepEqual(h, get(h, a.v, k), get(h, b.v, k))
    ELSE FALSE

RECURSIVE diff(_, _, _)
RECURSIVE diffKeys(_, _, _, _, _)

\* the body of the loop, storing the value of a
diffKey_fromA(h, result, a, b, key) ==
    LET valA == get(h, a, key)
        valB == get(h, b, key)
    IN  IF deepEqual(h, valA, valB) THEN h
        ELSE IF isPlainObj(h, valA) /\ isPlainObj(h, valB)
        THEN LET nested == diff(h, valA.v, valB.v)
             IN  IF Cardinality(ObjectKeys(nested.heap, nested.value.v)) > 0
                 THEN set(nested.heap, result, key, nested.value)
                 ELSE nested.heap
        ELSE set(h, result, key, valA)

\* the body of the loop: one key of a or b
diffKey(h, result, a, b, key) ==
    LET valA == get(h, a, key)
        valB == get(h, b, key)
    IN  IF deepEqual(h, valA, valB) THEN h
        ELSE IF isPlainObj(h, valA) /\ isPlainObj(h, valB)
        THEN LET nested == diff(h, valA.v, valB.v)
             IN  IF Cardinality(ObjectKeys(nested.heap, nested.value.v)) > 0
                 THEN set(nested.heap, result, key, nested.value)
                 ELSE nested.heap
        ELSE set(h, result, key, valB)

\* for (const key of allKeys): no key's entry depends on another key's
diffKeys(h, result, a, b, keys) ==
    IF keys = {} THEN h
    ELSE LET key == CHOOSE k \in keys : TRUE
         IN  diffKeys(diffKey(h, result, a, b, key), result, a, b, keys \ {key})

diff(h, a, b) ==
    LET h1 == Append(h, Obj(<<>>))
        result == Len(h1)
        allKeys == ObjectKeys(h, a) \cup ObjectKeys(h, b)
    IN  [heap |-> diffKeys(h1, result, a, b, allKeys), value |-> Ref(result)]

(***************************************************************************)
(* The two mappings diff is given: numbers, null, undefined, arrays (equal *)
(* arrays of a and b are different objects) and nested mappings.           *)
(***************************************************************************)
DiffInner == {Obj(p) : p \in {<<>>, KA :> Num(1), KA :> Num(2), KA :> Undef}}

DiffNested(base) ==
    {<<Obj(p), Obj(<<>>)>> :
        p \in {<<>>, KA :> Num(1), KA :> Num(2), KA :> Undef, KB :> Num(1)}}
    \cup {<<Obj(KA :> Ref(base + 1)), g>> : g \in DiffInner}

DiffArrays == {ArrayOf(<<Num(1), Num(2)>>), ArrayOf(<<Num(1), Num(1 + 2)>>)}

DiffSources ==
    LET arrayAt == Len(<<1, 1, 1>>) + 1
    IN  {<<Obj(pa @@ pb), Obj(<<>>), Obj(<<>>), ArrayOf(<<>>)>> :
            pa \in {<<>>, KA :> Num(1)}, pb \in {<<>>, KB :> Num(1)}}
        \cup {<<Obj(pa), Obj(<<>>), Obj(<<>>), ArrayOf(<<>>)>> :
            pa \in {KA :> Num(2), KA :> Null, KA :> Undef}}
        \cup {<<Obj(KA :> Ref(arrayAt)), Obj(<<>>), Obj(<<>>), array>> :
            array \in DiffArrays}
        \cup {<<Obj(KA :> Ref(1 + 1))>> \o n \o <<ArrayOf(<<>>)>> :
            n \in DiffNested(1 + 1)}

DiffInit ==
    /\ WrapperIdle /\ OnceIdle /\ RetryIdle /\ TimeoutIdle
    /\ now = 0
    /\ \E shapes \in [1..2 -> DiffSources] :
           call = [f |-> "diff", heap |-> HeapOf(shapes),
                   a |-> RootAt(shapes, 1), b |-> RootAt(shapes, 2)]
    /\ ret = <<>>

DiffReturns ==
    /\ call.f = "diff" /\ ret = <<>>
    /\ ret' = diff(call.heap, call.a, call.b)
    /\ UNCHANGED call
    /\ UNCHANGED <<wrapperVars, onceVars, retryVars, timeoutVars>>

DiffNext == DiffReturns

SpecDiff == DiffInit /\ [][DiffNext]_vars

(***************************************************************************)
(* object.ts: flattenObject and unflattenObject.                           *)
(***************************************************************************)
KEmpty == <<>>
Dot == <<".">>

\* prefix ? `${prefix}.${key}` : key     (the empty string is falsy)
fullKeyOf(prefix, key) == IF prefix # <<>> THEN prefix \o Dot \o key ELSE key

\* Object.assign(target, source)
ObjectAssign(h, target, source) ==
    [h EXCEPT ![target].props = h[source].props @@ @]

RECURSIVE flattenObject(_, _, _)
RECURSIVE flattenKeys(_, _, _, _, _)

\* the body of the loop: one key of obj
flattenKey(h, result, obj, prefix, key) ==
    LET fullKey == fullKeyOf(prefix, key)
        val == get(h, obj, key)
    IN  IF isPlainObject(h, val)
        THEN LET inner == flattenObject(h, val.v, fullKey)
             IN  ObjectAssign(inner.heap, result, inner.value.v)
        ELSE set(h, result, fullKey, val)

flattenKeys(h, result, obj, prefix, keys) ==
    IF keys = {} THEN h
    ELSE LET key == CHOOSE k \in keys : TRUE
         IN  flattenKeys(flattenKey(h, result, obj, prefix, key),
                         result, obj, prefix, keys \ {key})

flattenObject(h, obj, prefix) ==
    LET h1 == Append(h, Obj(<<>>))
        result == Len(h1)
    IN  [heap |-> flattenKeys(h1, result, obj, prefix, ObjectKeys(h, obj)),
         value |-> Ref(result)]

\* key.split('.')
RECURSIVE split(_)
split(key) ==
    IF \A i \in 1..Len(key) : key[i] # "." THEN <<key>>
    ELSE LET i == CHOOSE j \in 1..Len(key) :
                      key[j] = "." /\ \A l \in 1..(j - 1) : key[l] # "."
         IN  <<SubSeq(key, 1, i - 1)>> \o split(SubSeq(key, i + 1, Len(key)))

\* the inner loop from index i on; current is the object reached so far.
\* A part that names something other than an object makes the next step
\* fail with a TypeError.
RECURSIVE descend(_, _, _, _, _)
descend(h, current, parts, i, val) ==
    IF current.t # "object" THEN [heap |-> h, threw |-> TRUE]
    ELSE IF i > Len(parts) - 1
    THEN [heap |-> set(h, current.v, parts[Len(parts)], val), threw |-> FALSE]
    ELSE IF parts[i] \notin ObjectKeys(h, current.v)
    THEN LET h1 == Append(h, Obj(<<>>))
             h2 == set(h1, current.v, parts[i], Ref(Len(h1)))
         IN  descend(h2, Ref(Len(h1)), parts, i + 1, val)
    ELSE descend(h, get(h, current.v, parts[i]), parts, i + 1, val)

RECURSIVE unflattenKeys(_, _, _, _)
unflattenKeys(h, result, obj, keys) ==
    IF keys = {} THEN [heap |-> h, threw |-> FALSE]
    ELSE LET key == CHOOSE k \in keys : TRUE
             d == descend(h, Ref(result), split(key), 1, get(h, obj, key))
         IN  IF d.threw THEN d
             ELSE unflattenKeys(d.heap, result, obj, keys \ {key})

unflattenObject(h, obj) ==
    LET h1 == Append(h, Obj(<<>>))
        result == Len(h1)
        u == unflattenKeys(h1, result, obj, ObjectKeys(h, obj))
    IN  [heap |-> u.heap,
         value |-> IF u.threw THEN [t |-> "TypeError", v |-> 0] ELSE Ref(result)]

(***************************************************************************)
(* The mappings flattenObject is given.  Keys: 'a', 'b', the empty string, *)
(* and (alone) the dotted key 'a.b'; values: a number, null, an array, and *)
(* mappings nested up to three deep, the empty mapping among them.  No two *)
(* keys of a mapping flatten to the same dotted key, so the order in which *)
(* the keys are visited does not matter.                                   *)
(***************************************************************************)
FlatNested(base) ==
    {<<Obj(p), Obj(<<>>)>> : p \in {<<>>, KB :> Num(1), KEmpty :> Num(1)}}
    \cup {<<Obj(k :> Ref(base + 1)), Obj(KB :> Num(1))>> : k \in {KB, KEmpty}}

FlatSources ==
    LET array == ArrayOf(<<Num(1), Num(2)>>)
        arrayAt == Len(<<1, 1, 1>>) + 1
        leavesA == {<<>>, KA :> Num(1), KA :> Null, KA :> Ref(arrayAt)}
        leavesE == {<<>>, KEmpty :> Num(2)}
    IN  {<<Obj(pa @@ pe), Obj(<<>>), Obj(<<>>), array>> :
            pa \in leavesA, pe \in leavesE}
        \cup {<<Obj((k :> Ref(1 + 1)) @@ p)>> \o n \o <<array>> :
            n \in FlatNested(1 + 1),
            k \in {KA}, p \in leavesE}
        \cup {<<Obj((k :> Ref(1 + 1)) @@ p)>> \o n \o <<array>> :
            n \in FlatNested(1 + 1),
            k \in {KEmpty}, p \in leavesA}
        \cup {<<Obj((KA \o Dot \o KB) :> Num(1)), Obj(<<>>), Obj(<<>>), array>>}

FlattenInit ==
    /\ WrapperIdle /\ OnceIdle /\ RetryIdle /\ TimeoutIdle
    /\ now = 0
    /\ \E shapes \in [1..1 -> FlatSources] :
           call = [f |-> "flattenObject", heap |-> HeapOf(shapes), o |-> 1]
    /\ ret = <<>>

\* flat = flattenObject(o)
FlattenReturns ==
    /\ call.f = "flattenObject" /\ ret = <<>>
    /\ LET x == flattenObject(call.heap, call.o, <<>>)
       IN  ret' = [heap |-> x.heap, flat |-> x.value]
    /\ UNCHANGED call
    /\ UNCHANGED <<wrapperVars, onceVars, retryVars, timeoutVars>>

\* back = unflattenObject(flat)
UnflattenReturns ==
    /\ call.f = "flattenObject" /\ DOMAIN ret = {"heap", "flat"}
    /\ LET x == unflattenObject(ret.heap, ret.flat.v)
       IN  ret' = [heap |-> x.heap, flat |-> ret.flat, back |-> x.value]
    /\ UNCHANGED call
    /\ UNCHANGED <<wrapperVars, onceVars, retryVars, timeoutVars>>

\* again = flattenObject(back)
FlattenAgainReturns ==
    /\ call.f = "flattenObject" /\ DOMAIN ret = {"heap", "flat", "back"}
    /\ ret.back.t = "object"
    /\ LET x == flattenObject(ret.heap, ret.back.v, <<>>)
       IN  ret' = [heap |-> x.heap, flat |-> ret.flat, back |-> ret.back,
                   again |-> x.value]
    /\ UNCHANGED call
    /\ UNCHANGED <<wrapperVars, onceVars, retryVars, timeoutVars>>

FlattenNext == FlattenReturns \/ UnflattenReturns \/ FlattenAgainReturns

SpecFlatten == FlattenInit /\ [][FlattenNext]_vars

(***************************************************************************)
(* array.ts: chunk.  An array is the sequence of its items; JavaScript     *)
(* indices start at 0.                                                     *)
(***************************************************************************)
MaxLen == 4
MaxSize == 3

Items == {1, 2}

Arrays == UNION {[1..n -> Items] : n \in 0..MaxLen}

Min(x, y) == IF x <= y THEN x ELSE y

\* array.slice(start, end) for 0 <= start <= end
slice(array, start, end) == SubSeq(array, start + 1, Min(end, Len(array)))

\* the loop that stops before a chunk that would not be full
RECURSIVE chunkLoop_fullOnly(_, _, _, _)
chunkLoop_fullOnly(array, size, i, result) ==
    IF i + size <= Len(array)
    THEN chunkLoop_fullOnly(array, size, i + size,
                            Append(result, slice(array, i, i + size)))
    ELSE result

\* for (let i = 0; i < array.length; i += size) result.push(...)
RECURSIVE chunkLoop(_, _, _, _)
chunkLoop(array, size, i, result) ==
    IF i < Len(array)
    THEN chunkLoop(array, size, i + size, Append(result, slice(array, i, i + size)))
    ELSE result

chunk(array, size) == IF size <= 0 THEN <<>> ELSE chunkLoop(array, size, 0, <<>>)

ChunkInit ==
    /\ WrapperIdle /\ OnceIdle /\ RetryIdle /\ TimeoutIdle
    /\ now = 0
    /\ call \in [f : {"chunk"}, array : Arrays, size : (0 - 1)..MaxSize]
    /\ ret = <<>>

ChunkReturns ==
    /\ call.f = "chunk" /\ ret = <<>>
    /\ ret' = [value |-> chunk(call.array, call.size)]
    /\ UNCHANGED call
    /\ UNCHANGED <<wrapperVars, onceVars, retryVars, timeoutVars>>

ChunkNext == ChunkReturns

SpecChunk == ChunkInit /\ [][ChunkNext]_vars

(***************************************************************************)
(* array.ts: uniqueArray and hasDuplicates with a key extractor.           *)
(*                                                                         *)
(* The items are objects {key, val}; the extractor returns item.key, a     *)
(* number or a string.  A Map or Set key is the extracted key or, when the *)
(* extractor's result is null or undefined, the item itself (an object,    *)
(* which equals no other item of the array).                               *)
(***************************************************************************)
NumKey(n) == [t |-> "number", n |-> n, s |-> ""]
StrKey(s) == [t |-> "string", n |-> 0, s |-> s]

ExtractedKeys == {NumKey(0), NumKey(1), StrKey("")}

KeyedItems == [key : ExtractedKeys, val : {"first", "second"}]

KeyedArrays == UNION {[1..n -> KeyedItems] : n \in 0..MaxLen}

keyExtractor(value) == value.key

\* 0, '' (and NaN, null, undefined, false) are falsy
falsy(k) ==
    \/ k.t \in {"null", "undefined"}
    \/ k.t = "number" /\ k.n = 0
    \/ k.t = "string" /\ k.s = ""

\* keyExtractor(value) || value
keyOf_orValue(array, index) ==
    IF falsy(keyExtractor(array[index]))
    THEN <<"value", index>>
    ELSE <<"key", keyExtractor(array[index])>>

\* keyExtractor?.(value, index, array) ?? value
keyOf(array, index) ==
    IF keyExtractor(array[index]).t \in {"null", "undefined"}
    THEN <<"value", index>>
    ELSE <<"key", keyExtractor(array[index])>>

\* map.set(k, v) on a Map kept as its entries in insertion order: a key that
\* is there keeps its place and takes the new value
MapSet(entries, k, v) ==
    IF \E i \in 1..Len(entries) : entries[i][1] = k
    THEN [i \in 1..Len(entries) |->
             IF entries[i][1] = k THEN <<k, v>> ELSE entries[i]]
    ELSE Append(entries, <<k, v>>)

\* new Map(array.map(...)): the entries are set one after the other
RECURSIVE NewMap(_, _)
NewMap(array, n) ==
    IF n = 0 THEN <<>>
    ELSE MapSet(NewMap(array, n - 1), keyOf(array, n), array[n])

\* [...map.values()]
uniqueArray(array) ==
    LET entries == NewMap(array, Len(array))
    IN  [i \in 1..Len(entries) |-> entries[i][2]]

\* new Set(array.map(...)).size: the keys that equal no earlier key
SetSize(array) ==
    Cardinality({i \in 1..Len(array) :
        \A j \in 1..(i - 1) : keyOf(array, j) # keyOf(array, i)})

hasDuplicates(array) == SetSize(array) < Len(array)

UniqueInit ==
    /\ WrapperIdle /\ OnceIdle /\ RetryIdle /\ TimeoutIdle
    /\ now = 0
    /\ call \in [f : {"uniqueArray"}, array : KeyedArrays]
    /\ ret = [unique |-> <<>>, dup |-> <<>>]

\* uniqueArray(array, keyExtractor)
UniqueArrayReturns ==
    /\ call.f = "uniqueArray" /\ ret.unique = <<>>
    /\ ret' = [ret EXCEPT !.unique = <<uniqueArray(call.array)>>]
    /\ UNCHANGED call
    /\ UNCHANGED <<wrapperVars, onceVars, retryVars, timeoutVars>>

\* hasDuplicates(array, keyExtractor)
HasDuplicatesReturns ==
    /\ call.f = "uniqueArray" /\ ret.dup = <<>>
    /\ ret' = [ret EXCEPT !.dup = <<hasDuplicates(call.array)>>]
    /\ UNCHANGED call
    /\ UNCHANGED <<wrapperVars, onceVars, retryVars, timeoutVars>>

UniqueNext == UniqueArrayReturns \/ HasDuplicatesReturns

SpecUnique == UniqueInit /\ [][UniqueNext]_vars

(***************************************************************************)
(* array.ts: the operations that filter or reorder, on arrays that are     *)
(* objects of the heap (an array has an identity, and what is returned is  *)
(* a reference).  The items are the numbers 0 (falsy) and 1.               *)
(***************************************************************************)
MaxItems == 2
MaxArgs == 2

ArrayItems == {Num(0), Num(1)}

ItemLists == UNION {[1..n -> ArrayItems] : n \in 0..MaxItems}

\* a new array holding the items
NewArray(h, items) ==
    [heap |-> Append(h, ArrayOf(items)), value |-> Ref(Len(h) + 1)]

itemsOf(h, a) == h[a].items

includes(items, item) == \E i \in 1..Len(items) : items[i] = item

\* a.filter((item) => !b.includes(item))
difference(h, a, b) ==
    LET keep(item) == ~includes(itemsOf(h, b), item)
    IN  NewArray(h, SelectSeq(itemsOf(h, a), keep))

\* array.filter(Boolean)
compact(h, array) ==
    LET Boolean(item) == ~(item.t = "number" /\ item.v = 0)
    IN  NewArray(h, SelectSeq(itemsOf(h, array), Boolean))

\* arrays.reduce(callback) without an initial value: the accumulator starts
\* as arrays[0] itself and the callback runs for arrays[1], arrays[2], ...
RECURSIVE reduce(_, _, _, _)
reduce(h, acc, arrays, k) ==
    IF k > Len(arrays) THEN [heap |-> h, value |-> Ref(acc)]
    ELSE LET keep(item) == includes(itemsOf(h, arrays[k]), item)
             next == NewArray(h, SelectSeq(itemsOf(h, acc), keep))
         IN  reduce(next.heap, next.value.v, arrays, k + 1)

intersection(h, arrays) ==
    IF Len(arrays) = 0 THEN NewArray(h, <<>>)
    ELSE reduce(h, arrays[1], arrays, 1 + 1)

\* Array.prototype.sort with the comparator of sortBy (stable)
RECURSIVE sort(_, _)
sort(items, order) ==
    IF items = <<>> THEN <<>>
    ELSE LET x == items[Len(items)]
             rest == sort(Front(items), order)
             before(y) == IF order = "desc" THEN y.v >= x.v ELSE y.v <= x.v
             after(y) == ~before(y)
         IN  SelectSeq(rest, before) \o <<x>> \o SelectSeq(rest, after)

\* [...array].sort(...)
sortBy(h, array, order) == NewArray(h, sort(itemsOf(h, array), order))

\* uniqueArray without a key extractor: the item is its own key
RECURSIVE mapOfValues(_)
mapOfValues(items) ==
    IF items = <<>> THEN <<>>
    ELSE MapSet(mapOfValues(Front(items)), items[Len(items)], items[Len(items)])

uniqueArrayOf(h, array) ==
    LET entries == mapOfValues(itemsOf(h, array))
    IN  NewArray(h, [i \in 1..Len(entries) |-> entries[i][2]])

\* chunk: each slice is a new array and so is the array of the slices
chunkOf(h, array, size) ==
    LET slices == chunk(itemsOf(h, array), size)
        h1 == h \o [i \in 1..Len(slices) |-> ArrayOf(slices[i])]
    IN  NewArray(h1, [i \in 1..Len(slices) |-> Ref(Len(h) + i)])

\* the Fisher-Yates loop from index i down (0-based); random[i] is
\* Math.floor(Math.random() * (i + 1))
RECURSIVE swaps(_, _, _)
swaps(items, random, i) ==
    IF i <= 0 THEN items
    ELSE LET j == random[i]
         IN  swaps([items EXCEPT ![i + 1] = items[j + 1], ![j + 1] = items[i + 1]],
                   random, i - 1)

\* const result = [...array]; ...; return result
shuffle(h, array, random) ==
    NewArray(h, swaps(itemsOf(h, array), random, Len(itemsOf(h, array)) - 1))

Randoms(n) == {random \in [1..(n - 1) -> 0..(n - 1)] : \A i \in 1..(n - 1) : random[i] <= i}

ArraysInit ==
    /\ WrapperIdle /\ OnceIdle /\ RetryIdle /\ TimeoutIdle
    /\ now = 0
    /\ \/ \E f \in {"shuffle", "compact", "uniqueArray"} : \E items \in ItemLists :
              call = [f |-> f, heap |-> <<ArrayOf(items)>>, arrays |-> <<1>>,
                      size |-> 0, order |-> "asc"]
       \/ \E order \in {"asc", "desc"} : \E items \in ItemLists :
              call = [f |-> "sortBy", heap |-> <<ArrayOf(items)>>, arrays |-> <<1>>,
                      size |-> 0, order |-> order]
       \/ \E size \in (0 - 1)..MaxSize : \E items \in ItemLists :
              call = [f |-> "chunk", heap |-> <<ArrayOf(items)>>, arrays |-> <<1>>,
                      size |-> size, order |-> "asc"]
       \/ \E lists \in [1..2 -> ItemLists] :
              call = [f |-> "difference",
                      heap |-> [i \in 1..2 |-> ArrayOf(lists[i])],
                      arrays |-> <<1, 2>>, size |-> 0, order |-> "asc"]
       \/ \E n \in 0..MaxArgs : \E lists \in [1..n -> ItemLists] :
              call = [f |-> "intersection",
                      heap |-> [i \in 1..n |-> ArrayOf(lists[i])],
                      arrays |-> [i \in 1..n |-> i], size |-> 0, order |-> "asc"]
    /\ ret = <<>>

Returned(x) == [heap |-> x.heap, value |-> x.value, pushed |-> FALSE]

ShuffleReturns ==
    /\ call.f = "shuffle" /\ ret = <<>>
    /\ \E random \in Randoms(Len(itemsOf(call.heap, call.arrays[1]))) :
           ret' = Returned(shuffle(call.heap, call.arrays[1], random))
    /\ UNCHANGED call
    /\ UNCHANGED <<wrapperVars, onceVars, retryVars, timeoutVars>>

SortByReturns ==
    /\ call.f = "sortBy" /\ ret = <<>>
    /\ ret' = Returned(sortBy(call.heap, call.arrays[1], call.order))
    /\ UNCHANGED call
    /\ UNCHANGED <<wrapperVars, onceVars, retryVars, timeoutVars>>

CompactReturns ==
    /\ call.f = "compact" /\ ret = <<>>
    /\ ret' = Returned(compact(call.heap, call.arrays[1]))
    /\ UNCHANGED call
    /\ UNCHANGED <<wrapperVars, onceVars, retryVars, timeoutVars>>

DifferenceReturns ==
    /\ call.f = "difference" /\ ret = <<>>
    /\ ret' = Returned(difference(call.heap, call.arrays[1], call.arrays[2]))
    /\ UNCHANGED call
    /\ UNCHANGED <<wrapperVars, onceVars, retryVars, timeoutVars>>

IntersectionReturns ==
    /\ call.f = "intersection" /\ ret = <<>>
    /\ ret' = Returned(intersection(call.heap, call.arrays))
    /\ UNCHANGED call
    /\ UNCHANGED <<wrapperVars, onceVars, retryVars, timeoutVars>>

UniqueArrayOfReturns ==
    /\ call.f = "uniqueArray" /\ ret = <<>>
    /\ ret' = Returned(uniqueArrayOf(call.heap, call.arrays[1]))
    /\ UNCHANGED call
    /\ UNCHANGED <<wrapperVars, onceVars, retryVars, timeoutVars>>

ChunkOfReturns ==
    /\ call.f = "chunk" /\ ret = <<>>
    /\ ret' = Returned(chunkOf(call.heap, call.arrays[1], call.size))
    /\ UNCHANGED call
    /\ UNCHANGED <<wrapperVars, onceVars, retryVars, timeoutVars>>

\* the caller changes the array it was given back: result.push(2)
ResultPush ==
    /\ call.f \in {"shuffle", "sortBy", "compact", "difference", "intersection",
                   "uniqueArray", "chunk"}
    /\ ret # <<>> /\ ~ret.pushed
    /\ ret' = [ret EXCEPT !.pushed = TRUE,
                          !.heap[ret.value.v].items = Append(@, Num(2))]
    /\ UNCHANGED call
    /\ UNCHANGED <<wrapperVars, onceVars, retryVars, timeoutVars>>

ArraysNext ==
    \/ ShuffleReturns \/ SortByReturns \/ CompactReturns \/ DifferenceReturns
    \/ IntersectionReturns \/ UniqueArrayOfReturns \/ ChunkOfReturns
    \/ ResultPush

SpecArrays == ArraysInit /\ [][ArraysNext]_vars

(***************************************************************************)
(* string.ts: escapeHTML and unescapeHTML.  A string is the sequence of    *)
(* its characters.                                                         *)
(***************************************************************************)
MaxStr == 3

Reserved == {"&", "<", ">", "\"", "'"}

Strings == UNION {[1..n -> Reserved] : n \in 0..MaxStr}

escapeMap(char) ==
    CASE char = "&" -> <<"&", "a", "m", "p", ";">>
      [] char = "<" -> <<"&", "l", "t", ";">>
      [] char = ">" -> <<"&", "g", "t", ";">>
      [] char = "\"" -> <<"&", "q", "u", "o", "t", ";">>
      [] char = "'" -> <<"&", "#", "0", "3", "9", ";">>
      [] OTHER -> <<char>>

\* str.replace(/[&<>"']/g, (char) => escapeMap[char] || char)
RECURSIVE escapeHTML(_)
escapeHTML(str) ==
    IF str = <<>> THEN <<>>
    ELSE escapeMap(Head(str)) \o escapeHTML(Tail(str))

\* the map without the numeric entity
unescapeMap_namedOnly(entity) ==
    CASE entity = <<"&", "a", "m", "p", ";">> -> <<"&">>
      [] entity = <<"&", "l", "t", ";">> -> <<"<">>
      [] entity = <<"&", "g", "t", ";">> -> <<">">>
      [] entity = <<"&", "q", "u", "o", "t", ";">> -> <<"\"">>
      [] OTHER -> entity

\* unescapeMap[entity] || entity
unescapeMap(entity) ==
    CASE entity = <<"&", "a", "m", "p", ";">> -> <<"&">>
      [] entity = <<"&", "l", "t", ";">> -> <<"<">>
      [] entity = <<"&", "g", "t", ";">> -> <<">">>
      [] entity = <<"&", "q", "u", "o", "t", ";">> -> <<"\"">>
      [] entity = <<"&", "#", "0", "3", "9", ";">> -> <<"'">>
      [] OTHER -> entity

\* [a-zA-Z0-9#]: of these the strings of the model hold the characters of
\* the five entities
EntityChars == {"a", "m", "p", "l", "t", "g", "q", "u", "o", "#", "0", "3", "9"}

\* the length of the match of /&[a-zA-Z0-9#]+;/ at position i, 0 for none:
\* '&', the longest run of entity characters (at least one), then ';'
matchAt(str, i) ==
    IF str[i] # "&" THEN 0
    ELSE LET run == CHOOSE n \in 0..(Len(str) - i) :
                       /\ \A l \in 1..n : str[i + l] \in EntityChars
                       /\ (i + n + 1 <= Len(str) => str[i + n + 1] \notin EntityChars)
         IN  IF run >= 1 /\ i + run + 1 <= Len(str) /\ str[i + run + 1] = ";"
             THEN run + 1 + 1
             ELSE 0

\* str.replace(/&[a-zA-Z0-9#]+;/g, ...) from position i on
RECURSIVE unescapeFrom(_, _)
unescapeFrom(str, i) ==
    IF i > Len(str) THEN <<>>
    ELSE LET n == matchAt(str, i)
         IN  IF n = 0 THEN <<str[i]>> \o unescapeFrom(str, i + 1)
             ELSE unescapeMap(SubSeq(str, i, i + n - 1)) \o unescapeFrom(str, i + n)

unescapeHTML(str) == unescapeFrom(str, 1)

HTMLInit ==
    /\ WrapperIdle /\ OnceIdle /\ RetryIdle /\ TimeoutIdle
    /\ now = 0
    /\ call \in [f : {"escapeHTML"}, s : Strings]
    /\ ret = <<>>

\* e = escapeHTML(s); ue = unescapeHTML(e)
EscapeThenUnescape ==
    /\ call.f = "escapeHTML" /\ "ue" \notin DOMAIN ret
    /\ LET e == escapeHTML(call.s)
       IN  ret' = ("e" :> e) @@ ("ue" :> unescapeHTML(e)) @@ ret
    /\ UNCHANGED call
    /\ UNCHANGED <<wrapperVars, onceVars, retryVars, timeoutVars>>

\* u = unescapeHTML(s); eu = escapeHTML(u)
UnescapeThenEscape ==
    /\ call.f = "escapeHTML" /\ "eu" \notin DOMAIN ret
    /\ LET u == unescapeHTML(call.s)
       IN  ret' = ("u" :> u) @@ ("eu" :> escapeHTML(u)) @@ ret
    /\ UNCHANGED call
    /\ UNCHANGED <<wrapperVars, onceVars, retryVars, timeoutVars>>

HTMLNext == EscapeThenUnescape \/ UnescapeThenEscape

SpecHTML == HTMLInit /\ [][HTMLNext]_vars

(***************************************************************************)
(* size.ts: formatBytes and toBytes.                                       *)
(*                                                                         *)
(* A byte count is kept as m * K^e with 0 <= m < K (m = 0 only with        *)
(* e = 0), which is exact for the counts of the model (below 2^53) and     *)
(* keeps K^5 within the checker's integers.  A string is the sequence of   *)
(* its characters.                                                         *)
(***************************************************************************)
MaxMult == 12
MaxUnit == 5

\* const k = 1024
K == 1024

Count(m, e) == [t |-> "number", m |-> m, f |-> <<>>, e |-> e]
NoResult == [t |-> "undefined", m |-> 0, f |-> <<>>, e |-> 0]

DigitChars == <<"0", "1", "2", "3", "4", "5", "6", "7", "8", "9">>

\* the decimal digits of a natural number
RECURSIVE Digits(_)
Digits(n) ==
    IF n < 10 THEN <<DigitChars[n + 1]>>
    ELSE Digits(n \div 10) \o <<DigitChars[(n % 10) + 1]>>

\* n.toFixed(dm) for a whole number n
toFixed(n, dm) ==
    IF dm > 0 THEN Digits(n) \o <<".">> \o [i \in 1..dm |-> "0"] ELSE Digits(n)

isDigit(c) == \E d \in 1..Len(DigitChars) : DigitChars[d] = c

DigitValue(c) == (CHOOSE d \in 1..Len(DigitChars) : DigitChars[d] = c) - 1

\* the whole number written by a run of digits
RECURSIVE ValueOf(_)
ValueOf(ds) ==
    IF ds = <<>> THEN 0
    ELSE ValueOf(Front(ds)) * 10 + DigitValue(ds[Len(ds)])

\* the longest run of characters satisfying test, from position i on
RunFrom(str, i, test(_)) ==
    CHOOSE n \in 0..(Len(str) - i + 1) :
        /\ \A l \in 0..(n - 1) : test(str[i + l])
        /\ (i + n <= Len(str) => ~test(str[i + n]))

\* drops the zeros a fraction ends with
RECURSIVE Significant(_)
Significant(ds) ==
    IF ds # <<>> /\ ds[Len(ds)] = "0" THEN Significant(Front(ds)) ELSE ds

\* parseFloat / Number of digits, an optional point and more digits
NumberOf(str) ==
    LET whole == RunFrom(str, 1, isDigit)
        point == IF whole + 1 <= Len(str) /\ str[whole + 1] = "." THEN 1 ELSE 0
    IN  [m |-> ValueOf(SubSeq(str, 1, whole)),
         f |-> Significant(SubSeq(str, whole + point + 1, Len(str)))]

sizes ==
    << <<"B", "y", "t", "e", "s">>, <<"K", "B">>, <<"M", "B">>,
       <<"G", "B">>, <<"T", "B">>, <<"P", "B">> >>

\* `${sizes[i]}`: an index past the end reads undefined
sizeName(i) ==
    IF i + 1 <= Len(sizes) THEN sizes[i + 1]
    ELSE <<"u", "n", "d", "e", "f", "i", "n", "e", "d">>

\* formatBytes(bytes, decimals).  For bytes = m * K^e with 1 <= m < K,
\* Math.floor(Math.log(bytes) / Math.log(k)) is e and bytes / K^e is m.
formatBytes(bytes, decimals) ==
    IF bytes.m = 0 THEN <<"0", " ">> \o sizes[1]
    ELSE LET dm == IF decimals < 0 THEN 0 ELSE decimals
             i == bytes.e
             size == NumberOf(toFixed(bytes.m, dm))
         IN  Digits(size.m)
                 \o (IF size.f # <<>> THEN <<".">> \o size.f ELSE <<>>)
                 \o <<" ">> \o sizeName(i)

toUpperCase(c) ==
    CASE c = "b" -> "B" [] c = "k" -> "K" [] c = "m" -> "M" [] c = "g" -> "G"
      [] c = "t" -> "T" [] c = "p" -> "P" [] c = "y" -> "Y" [] c = "e" -> "E"
      [] c = "s" -> "S" [] OTHER -> c

\* the units of toBytes and the power of K each stands for
units == << <<"B">>, <<"K", "B">>, <<"M", "B">>, <<"G", "B">>, <<"T", "B">> >>

\* str.trim()
RECURSIVE trim(_)
trim(str) ==
    IF str # <<>> /\ str[1] = " " THEN trim(Tail(str))
    ELSE IF str # <<>> /\ str[Len(str)] = " " THEN trim(Front(str))
    ELSE str

\* m * K^e with m below K where that can be
RECURSIVE Scaled(_, _)
Scaled(m, e) ==
    IF m = 0 THEN Count(0, 0)
    ELSE IF m >= K /\ m % K = 0 THEN Scaled(m \div K, e + 1)
    ELSE Count(m, e)

\* size.trim().match(/^(\d+\.?\d*)\s*(B|KB|MB|GB|TB)$/i) and the switch
toBytes(size) ==
    LET str == trim(size)
        isSpace(c) == c = " "
        whole == RunFrom(str, 1, isDigit)
        point == IF whole + 1 <= Len(str) /\ str[whole + 1] = "." THEN 1 ELSE 0
        more == RunFrom(str, whole + point + 1, isDigit)
        blanks == RunFrom(str, whole + point + more + 1, isSpace)
        rest == SubSeq(str, whole + point + more + blanks + 1, Len(str))
        unit == [i \in 1..Len(rest) |-> toUpperCase(rest[i])]
        value == NumberOf(SubSeq(str, 1, whole + point + more))
    IN  IF whole = 0 \/ ~\E n \in 1..Len(units) : units[n] = unit
        THEN NoResult
        ELSE LET n == CHOOSE n \in 1..Len(units) : units[n] = unit
             IN  [Scaled(value.m, n - 1) EXCEPT !.f = value.f]

BytesInit ==
    /\ WrapperIdle /\ OnceIdle /\ RetryIdle /\ TimeoutIdle
    /\ now = 0
    /\ \E m \in 0..MaxMult : \E e \in 0..MaxUnit : \E decimals \in {0 - 1, 0, 2} :
           /\ m = 0 => e = 0
           /\ call = [f |-> "formatBytes", bytes |-> Count(m, e), decimals |-> decimals]
    /\ ret = <<>>

\* text = formatBytes(bytes, decimals)
FormatBytesReturns ==
    /\ call.f = "formatBytes" /\ ret = <<>>
    /\ ret' = [text |-> formatBytes(call.bytes, call.decimals)]
    /\ UNCHANGED call
    /\ UNCHANGED <<wrapperVars, onceVars, retryVars, timeoutVars>>

\* back = toBytes(text)
ToBytesReturns ==
    /\ call.f = "formatBytes" /\ DOMAIN ret = {"text"}
    /\ ret' = [text |-> ret.text, back |-> toBytes(ret.text)]
    /\ UNCHANGED call
    /\ UNCHANGED <<wrapperVars, onceVars, retryVars, timeoutVars>>

BytesNext == FormatBytesReturns \/ ToBytesReturns

SpecBytes == BytesInit /\ [][BytesNext]_vars

(***************************************************************************)
(* normalize(value).  A value is its typeof tag, its constructor (for an   *)
(* object), and a count n: a string's length, a number's or a boolean's    *)
(* value, a Date's getTime(), an array's length, a Set's or a Map's size,  *)
(* and for every other object the number of its own enumerable keys.  nan  *)
(* says that the number, or the Date's time, is NaN.  normalize returns    *)
(* either null or the very value it was given, so the record stands for    *)
(* the value's identity as well.                                           *)
(***************************************************************************)
MaxCount == 3

Primitive(t, n) == [t |-> t, cls |-> "", n |-> n, nan |-> FALSE]
NaN == [t |-> "number", cls |-> "", n |-> 0, nan |-> TRUE]
Instance(cls, n) == [t |-> "object", cls |-> cls, n |-> n, nan |-> FALSE]
InvalidDate == [t |-> "object", cls |-> "Date", n |-> 0, nan |-> TRUE]
NullValue == Primitive("null", 0)

\* the constructors of the objects handed to normalize; Foo is a class
\* declared by the caller
Constructors == {"Date", "Array", "Set", "Map", "Object", "RegExp", "Error", "Foo"}

NormalizeValues ==
    {Primitive("string", n) : n \in 0..MaxCount}
      \cup {Primitive("number", n) : n \in (0 - 1)..MaxCount} \cup {NaN}
      \cup {Primitive("boolean", n) : n \in 0..1}
      \cup {NullValue, Primitive("undefined", 0), Primitive("symbol", 0)}
      \cup {Primitive("bigint", n) : n \in 0..MaxCount}
      \cup {Primitive("function", n) : n \in 0..MaxCount}
      \cup {Instance(cls, n) : cls \in Constructors, n \in 0..MaxCount}
      \cup {InvalidDate}

isNaN(value) == value.nan

\* value ?? null
orNull(value) == IF value.t \in {"null", "undefined"} THEN NullValue ELSE value

normalize(value) ==
    CASE typeof(value) = "string" -> IF value.n = 0 THEN NullValue ELSE value
      [] typeof(value) = "number" -> IF isNaN(value) THEN NullValue ELSE value
      [] typeof(value) = "boolean" -> value
      [] typeof(value) = "object" ->
            IF value.t \in {"null", "undefined"} THEN orNull(value)
            ELSE IF value.cls = "Date" THEN (IF isNaN(value) THEN NullValue ELSE value)
            ELSE IF value.cls = "Array" THEN (IF value.n = 0 THEN NullValue ELSE value)
            ELSE IF value.cls = "Set" THEN (IF value.n = 0 THEN NullValue ELSE value)
            ELSE IF value.cls = "Map" THEN (IF value.n = 0 THEN NullValue ELSE value)
            ELSE (IF value.n = 0 THEN NullValue ELSE value)
      [] OTHER -> orNull(value)

NormalizeInit ==
    /\ WrapperIdle /\ OnceIdle /\ RetryIdle /\ TimeoutIdle
    /\ now = 0
    /\ \E value \in NormalizeValues : call = [f |-> "normalize", value |-> value]
    /\ ret = <<>>

\* normalized = normalize(value)
NormalizeReturns ==
    /\ call.f = "normalize" /\ ret = <<>>
    /\ ret' = [normalized |-> normalize(call.value)]
    /\ UNCHANGED call
    /\ UNCHANGED <<wrapperVars, onceVars, retryVars, timeoutVars>>

NormalizeNext == NormalizeReturns

SpecNormalize == NormalizeInit /\ [][NormalizeNext]_vars

(***************************************************************************)
(* truncate(text, maxLength, ellipsis) and slugify(title, length).  A      *)
(* string is the sequence of its characters; "e_acute" is the letter e     *)
(* with an acute accent and "acute" the combining mark it decomposes to.   *)
(***************************************************************************)
MaxText == 4
MaxLength == 5

TextChars == {"a", "B", " ", "-", "!", "e_acute"}
Texts == UNION {[1..n -> TextChars] : n \in 0..MaxText}

\* str.slice(0, end): a negative end counts from the end of the string
sliceTo(str, end) ==
    LET last == IF end < 0 THEN (IF Len(str) + end < 0 THEN 0 ELSE Len(str) + end)
                ELSE Min(end, Len(str))
    IN  SubSeq(str, 1, last)

truncate(text, maxLength, ellipsis) ==
    IF Len(text) <= maxLength THEN text
    ELSE IF ellipsis THEN sliceTo(text, maxLength - 3) \o <<".", ".", ".">>
         ELSE sliceTo(text, maxLength)

\* normalize('NFD')
RECURSIVE normalizeNFD(_)
normalizeNFD(str) ==
    IF str = <<>> THEN <<>>
    ELSE (IF Head(str) = "e_acute" THEN <<"e", "acute">> ELSE <<Head(str)>>)
             \o normalizeNFD(Tail(str))

\* [̀-ͯ]
isCombiningMark(c) == c = "acute"

LowerCaseLetters == {"b", "k", "m", "g", "t", "p", "y", "e", "s"}

toLowerCase(c) ==
    IF \E l \in LowerCaseLetters : toUpperCase(l) = c
    THEN CHOOSE l \in LowerCaseLetters : toUpperCase(l) = c
    ELSE c

\* \w and the hyphen
isWordOrHyphen(c) == c \in {"a", "b", "B", "e", "_", "-"}

RECURSIVE skipRun(_, _)
skipRun(str, c) == IF str # <<>> /\ Head(str) = c THEN skipRun(Tail(str), c) ELSE str

\* replace(/c+/g, '-'): every maximal run of c becomes one hyphen
RECURSIVE replaceRuns(_, _)
replaceRuns(str, c) ==
    IF str = <<>> THEN <<>>
    ELSE IF Head(str) = c THEN <<"-">> \o replaceRuns(skipRun(str, c), c)
    ELSE <<Head(str)>> \o replaceRuns(Tail(str), c)

\* replace(/^-+/, '').replace(/-+$/, '')
RECURSIVE trimHyphens(_)
trimHyphens(str) ==
    IF str # <<>> /\ str[1] = "-" THEN trimHyphens(Tail(str))
    ELSE IF str # <<>> /\ str[Len(str)] = "-" THEN trimHyphens(Front(str))
    ELSE str

slugify(title, length) ==
    LET noMark(c) == ~isCombiningMark(c)
        plain == SelectSeq(normalizeNFD(title), noMark)
        lower == [i \in 1..Len(plain) |-> toLowerCase(plain[i])]
        dashed == replaceRuns(trim(lower), " ")
        words == SelectSeq(dashed, isWordOrHyphen)
    IN  sliceTo(trimHyphens(replaceRuns(words, "-")), length)

TextInit ==
    /\ WrapperIdle /\ OnceIdle /\ RetryIdle /\ TimeoutIdle
    /\ now = 0
    /\ \E text \in Texts : \E maxLength \in 0..MaxLength :
           \/ \E ellipsis \in BOOLEAN :
                  call = [f |-> "truncate", text |-> text, maxLength |-> maxLength,
                          ellipsis |-> ellipsis]
           \/ call = [f |-> "slugify", text |-> text, maxLength |-> maxLength,
                      ellipsis |-> FALSE]
    /\ ret = <<>>

TruncateReturns ==
    /\ call.f = "truncate" /\ ret = <<>>
    /\ ret' = [text |-> truncate(call.text, call.maxLength, call.ellipsis)]
    /\ UNCHANGED call
    /\ UNCHANGED <<wrapperVars, onceVars, retryVars, timeoutVars>>

SlugifyReturns ==
    /\ call.f = "slugify" /\ ret = <<>>
    /\ ret' = [text |-> slugify(call.text, call.maxLength)]
    /\ UNCHANGED call
    /\ UNCHANGED <<wrapperVars, onceVars, retryVars, timeoutVars>>

TextNext == TruncateReturns \/ SlugifyReturns

SpecText == TextInit /\ [][TextNext]_vars

(***************************************************************************)
(* hexToRgb(hex), rgbToHex(r, g, b), lighten(hex, amount) and              *)
(* darken(hex, amount).  An amount is the fraction p / MaxAmount; the      *)
(* channel arithmetic is done on numerators over MaxAmount.                *)
(***************************************************************************)
MaxDigits == 7
MaxAmount == 2

HexDigits == <<"0", "1", "2", "3", "4", "5", "6", "7", "8", "9",
               "a", "b", "c", "d", "e", "f">>

\* the characters colour strings are written with here: two hexadecimal
\* digits, one of them upper case, and a letter that is no digit
ColourChars == {"1", "F", "g"}
ColourStrings ==
    LET bodies == UNION {[1..n -> ColourChars] : n \in 0..MaxDigits}
    IN  bodies \cup {<<"#">> \o body : body \in bodies}

\* the value of a character as a digit of radix 16, or -1
hexValue(c) ==
    IF \E n \in 1..16 : HexDigits[n] = c THEN (CHOOSE n \in 1..16 : HexDigits[n] = c) - 1
    ELSE IF c = "F" THEN 15
    ELSE 0 - 1

\* parseInt(str, 16) of a string without blanks, sign or 0x: the value of the
\* longest prefix of digits, NaN (-1) when the first character is no digit
RECURSIVE parseDigits(_, _)
parseDigits(str, acc) ==
    IF str = <<>> \/ hexValue(Head(str)) < 0 THEN acc
    ELSE parseDigits(Tail(str), acc * 16 + hexValue(Head(str)))

parseInt16(str) ==
    IF str = <<>> \/ hexValue(Head(str)) < 0 THEN 0 - 1 ELSE parseDigits(str, 0)

NoRgb == [ok |-> FALSE, r |-> 0, g |-> 0, b |-> 0]

hexToRgb(hex) ==
    LET cleaned == IF hex # <<>> /\ Head(hex) = "#" THEN Tail(hex) ELSE hex
        fullHex == IF Len(cleaned) = 3
                   THEN [i \in 1..6 |-> cleaned[(i + 1) \div 2]]
                   ELSE cleaned
        num == parseInt16(fullHex)
    IN  IF Len(cleaned) # 3 /\ Len(cleaned) # 6 THEN NoRgb
        ELSE IF num < 0 THEN NoRgb
        ELSE [ok |-> TRUE, r |-> (num \div 65536) % 256, g |-> (num \div 256) % 256,
              b |-> num % 256]

\* Math.max(0, Math.min(255, Math.round(v / MaxAmount))): round is to the
\* nearest integer, a half goes up
roundClamped(v) ==
    LET rounded == (2 * v + MaxAmount) \div (2 * MaxAmount)
    IN  IF rounded < 0 THEN 0 ELSE IF rounded > 255 THEN 255 ELSE rounded

\* v.toString(16).padStart(2, '0')
toHexPair(v) == <<HexDigits[(v \div 16) + 1], HexDigits[(v % 16) + 1]>>

\* rgbToHex of three channels given over MaxAmount
rgbToHex(red, green, blue) ==
    <<"#">> \o toHexPair(roundClamped(red)) \o toHexPair(roundClamped(green))
            \o toHexPair(roundClamped(blue))

\* amount is p / MaxAmount
lighten(hex, p) ==
    LET rgb == hexToRgb(hex)
    IN  IF ~rgb.ok THEN hex
        ELSE rgbToHex(rgb.r * MaxAmount + (255 - rgb.r) * p,
                      rgb.g * MaxAmount + (255 - rgb.g) * p,
                      rgb.b * MaxAmount + (255 - rgb.b) * p)

darken(hex, p) ==
    LET rgb == hexToRgb(hex)
    IN  IF ~rgb.ok THEN hex
        ELSE rgbToHex(rgb.r * (MaxAmount - p), rgb.g * (MaxAmount - p),
                      rgb.b * (MaxAmount - p))

ColourInit ==
    /\ WrapperIdle /\ OnceIdle /\ RetryIdle /\ TimeoutIdle
    /\ now = 0
    /\ \E hex \in ColourStrings :
           \/ call = [f |-> "hexToRgb", hex |-> hex, amount |-> 0]
           \/ \E f \in {"lighten", "darken"} : \E p \in 0..MaxAmount :
                  call = [f |-> f, hex |-> hex, amount |-> p]
    /\ ret = <<>>

HexToRgbReturns ==
    /\ call.f = "hexToRgb" /\ ret = <<>>
    /\ ret' = [rgb |-> hexToRgb(call.hex), hex |-> <<>>]
    /\ UNCHANGED call
    /\ UNCHANGED <<wrapperVars, onceVars, retryVars, timeoutVars>>

LightenReturns ==
    /\ call.f = "lighten" /\ ret = <<>>
    /\ ret' = [rgb |-> NoRgb, hex |-> lighten(call.hex, call.amount)]
    /\ UNCHANGED call
    /\ UNCHANGED <<wrapperVars, onceVars, retryVars, timeoutVars>>

DarkenReturns ==
    /\ call.f = "darken" /\ ret = <<>>
    /\ ret' = [rgb |-> NoRgb, hex |-> darken(call.hex, call.amount)]
    /\ UNCHANGED call
    /\ UNCHANGED <<wrapperVars, onceVars, retryVars, timeoutVars>>

ColourNext == HexToRgbReturns \/ LightenReturns \/ DarkenReturns

SpecColour == ColourInit /\ [][ColourNext]_vars

(***************************************************************************)
(* data.ts: isEqual(a, b).  The values live in the heap introduced for     *)
(* merge; a mapping also records the order its keys were inserted in,      *)
(* which is the order Object.keys lists them in.  The recursion of isEqual *)
(* uses one stack frame per nested call; the engine throws a RangeError    *)
(* when the stack is MaxStack frames deep.                                 *)
(***************************************************************************)
MaxStack == 6

Str(n) == [t |-> "string", v |-> n]
NotANumber == [t |-> "number", v |-> 0 - 1]

KX == <<"x">>
KY == <<"y">>
KSelf == <<"s", "e", "l", "f">>

\* the key an array keeps its i-th item under (i from 0)
IndexKey(i) == <<DigitChars[i + 1]>>

\* a mapping whose keys were inserted in the given order
Mapping(order, vals) ==
    [kind |-> "Object", items |-> <<>>, order |-> order,
     props |-> [key \in {order[i] : i \in 1..Len(order)} |->
                   vals[CHOOSE i \in 1..Len(order) : order[i] = key]]]

List(items) == [kind |-> "Array", items |-> items, order |-> <<>>, props |-> <<>>]

\* a === b
strictEquals(a, b) == a = b /\ a # NotANumber

\* Object.keys(obj), in order
keysOf(h, val) ==
    IF h[val.v].kind = "Array" THEN [i \in 1..Len(h[val.v].items) |-> IndexKey(i - 1)]
    ELSE h[val.v].order

\* obj[key]
read(h, val, key) ==
    IF h[val.v].kind = "Array"
    THEN IF \E i \in 1..Len(h[val.v].items) : IndexKey(i - 1) = key
         THEN h[val.v].items[CHOOSE i \in 1..Len(h[val.v].items) : IndexKey(i - 1) = key]
         ELSE Undef
    ELSE get(h, val.v, key)

RECURSIVE isEqual(_, _, _, _)
RECURSIVE isEqualItems(_, _, _, _, _)
RECURSIVE isEqualKeys(_, _, _, _, _, _)

\* for (let i = 0; i < a.length; i++) if (!isEqual(a[i], b[i])) return false
isEqualItems(h, a, b, i, depth) ==
    IF i > Len(h[a.v].items) THEN "true"
    ELSE LET item == isEqual(h, h[a.v].items[i], h[b.v].items[i], depth + 1)
         IN  IF item = "true" THEN isEqualItems(h, a, b, i + 1, depth) ELSE item

\* for (const key of keysA) if (!keysB.includes(key) || !isEqual(a[key], b[key])) return false
isEqualKeys(h, a, b, keysA, keysB, depth) ==
    IF keysA = <<>> THEN "true"
    ELSE IF ~\E i \in 1..Len(keysB) : keysB[i] = Head(keysA) THEN "false"
    ELSE LET value == isEqual(h, read(h, a, Head(keysA)), read(h, b, Head(keysA)),
                              depth + 1)
         IN  IF value = "true" THEN isEqualKeys(h, a, b, Tail(keysA), keysB, depth)
             ELSE value

\* the result is "true", "false", or "RangeError" when the call stack overflows
isEqual(h, a, b, depth) ==
    IF depth > MaxStack THEN "RangeError"
    ELSE IF strictEquals(a, b) THEN "true"
    ELSE IF a.t \in {"null", "undefined"} \/ b.t \in {"null", "undefined"} THEN "false"
    ELSE IF typeof(a) # typeof(b) THEN "false"
    ELSE IF typeof(a) = "object"
    THEN IF isArray(h, a) /\ isArray(h, b)
         THEN IF Len(h[a.v].items) # Len(h[b.v].items) THEN "false"
              ELSE isEqualItems(h, a, b, 1, depth)
         ELSE IF Len(keysOf(h, a)) # Len(keysOf(h, b)) THEN "false"
              ELSE isEqualKeys(h, a, b, keysOf(h, a), keysOf(h, b), depth)
    ELSE "false"

(***************************************************************************)
(* The values isEqual is given.  An object value is laid out as three      *)
(* objects from an address on: the value itself, an object nested in it,   *)
(* and one nested in that; a cyclic value refers back to itself.           *)
(***************************************************************************)
EqualPrimitives == {Num(1), Num(2), NotANumber, Str(1), Null, Undef}

EqualShapes(base) ==
    LET none == Mapping(<<>>, <<>>)
        flat == {Mapping(<<>>, <<>>), Mapping(<<KY>>, <<Num(1)>>),
                 Mapping(<<KX, KY>>, <<Num(1), Num(1)>>),
                 Mapping(<<KY, KX>>, <<Num(1), Num(1)>>),
                 Mapping(<<IndexKey(0)>>, <<Num(1)>>),
                 Mapping(<<IndexKey(0), IndexKey(1)>>, <<Num(1), Num(2)>>),
                 List(<<>>), List(<<Num(1)>>), List(<<Num(2)>>),
                 List(<<Num(1), Num(2)>>)}
                  \cup {Mapping(<<KX>>, <<v>>) : v \in {Num(1), Num(2), Undef, Null}}
        inner == {Mapping(<<KX>>, <<Num(1)>>), Mapping(<<KX>>, <<Num(2)>>),
                  List(<<Num(1)>>)}
        cyclic == {Mapping(<<KX, KSelf>>, <<Num(1), Ref(base)>>),
                   Mapping(<<KX, KSelf>>, <<Num(2), Ref(base)>>),
                   Mapping(<<KSelf, KX>>, <<Ref(base), Num(1)>>),
                   Mapping(<<KSelf, KX>>, <<Ref(base), Num(2)>>),
                   Mapping(<<KSelf>>, <<Ref(base)>>), List(<<Ref(base)>>)}
    IN  {<<root, none, none>> : root \in flat \cup cyclic}
        \cup {<<root, second, none>> :
                root \in {Mapping(<<KX>>, <<Ref(base + 1)>>), List(<<Ref(base + 1)>>)},
                second \in inner}
        \cup {<<Mapping(<<KX>>, <<Ref(base + 1)>>),
                Mapping(<<KX>>, <<Ref(base + 1 + 1)>>), third>> :
                third \in {Mapping(<<KX>>, <<Num(1)>>), Mapping(<<KX>>, <<Num(2)>>)}}

\* a's objects start at address 1, b's after them; b may also be a itself
IsEqualInit ==
    /\ WrapperIdle /\ OnceIdle /\ RetryIdle /\ TimeoutIdle
    /\ now = 0
    /\ \E shapeA \in EqualShapes(1) :
         \E shapeB \in EqualShapes(Len(shapeA) + 1) :
           \E a \in EqualPrimitives \cup {Ref(1)} :
             \E b \in EqualPrimitives \cup {Ref(1), Ref(Len(shapeA) + 1)} :
               /\ a.t # "object" => shapeA = <<Mapping(<<>>, <<>>), Mapping(<<>>, <<>>),
                                               Mapping(<<>>, <<>>)>>
               /\ b # Ref(Len(shapeA) + 1) =>
                      shapeB = <<Mapping(<<>>, <<>>), Mapping(<<>>, <<>>),
                                 Mapping(<<>>, <<>>)>>
               /\ call = [f |-> "isEqual", heap |-> shapeA \o shapeB, a |-> a, b |-> b]
    /\ ret = <<>>

\* result = isEqual(a, b)
IsEqualReturns ==
    /\ call.f = "isEqual" /\ ret = <<>>
    /\ ret' = [result |-> isEqual(call.heap, call.a, call.b, 1), swapped |-> "none"]
    /\ UNCHANGED call
    /\ UNCHANGED <<wrapperVars, onceVars, retryVars, timeoutVars>>

\* swapped = isEqual(b, a)
IsEqualSwappedReturns ==
    /\ call.f = "isEqual" /\ ret # <<>> /\ ret.swapped = "none"
    /\ ret' = [ret EXCEPT !.swapped = isEqual(call.heap, call.b, call.a, 1)]
    /\ UNCHANGED call
    /\ UNCHANGED <<wrapperVars, onceVars, retryVars, timeoutVars>>

IsEqualNext == IsEqualReturns \/ IsEqualSwappedReturns

SpecIsEqual == IsEqualInit /\ [][IsEqualNext]_vars

(***************************************************************************)
(* toCamelCase, toPascalCase, toSnakeCase, toKebabCase, toConstantCase.    *)
(***************************************************************************)
MaxInput == 4

\* a lower-case letter, an upper-case letter, and the three separators
CaseChars == {"m", "P", " ", "_", "-"}
CaseInputs == UNION {[1..n -> CaseChars] : n \in 0..MaxInput}

\* input.toLowerCase()
lowerCased(str) == [i \in 1..Len(str) |-> toLowerCase(str[i])]

\* str.toUpperCase()
upperCased(str) == [i \in 1..Len(str) |-> toUpperCase(str[i])]

\* split(/[separators]+/).filter(Boolean): the maximal runs of other characters
RECURSIVE splitWords(_, _, _)
splitWords(str, separators, word) ==
    IF str = <<>> THEN (IF word = <<>> THEN <<>> ELSE <<word>>)
    ELSE IF Head(str) \in separators
    THEN (IF word = <<>> THEN <<>> ELSE <<word>>) \o splitWords(Tail(str), separators, <<>>)
    ELSE splitWords(Tail(str), separators, Append(word, Head(str)))

\* words.join(separator)
RECURSIVE join(_, _)
join(words, separator) ==
    IF words = <<>> THEN <<>>
    ELSE IF Len(words) = 1 THEN words[1]
    ELSE words[1] \o separator \o join(Tail(words), separator)

\* word.charAt(0).toUpperCase() + word.slice(1)
upperFirst(word) == IF word = <<>> THEN <<>> ELSE <<toUpperCase(word[1])>> \o Tail(word)

toCamelCase(input) ==
    LET words == splitWords(lowerCased(input), {" ", "_", "-"}, <<>>)
    IN  join([index \in 1..Len(words) |->
                 IF index = 1 THEN words[index] ELSE upperFirst(words[index])], <<>>)

toPascalCase(input) ==
    LET words == splitWords(lowerCased(input), {" ", "_", "-"}, <<>>)
    IN  join([index \in 1..Len(words) |-> upperFirst(words[index])], <<>>)

toSnakeCase(input) == join(splitWords(lowerCased(input), {" ", "-"}, <<>>), <<"_">>)

toKebabCase(input) == join(splitWords(lowerCased(input), {" ", "_"}, <<>>), <<"-">>)

toConstantCase(input) == upperCased(toSnakeCase(input))

CaseConverters == {"toCamelCase", "toPascalCase", "toSnakeCase", "toKebabCase",
                   "toConstantCase"}

CaseInit ==
    /\ WrapperIdle /\ OnceIdle /\ RetryIdle /\ TimeoutIdle
    /\ now = 0
    /\ \E input \in CaseInputs : \E f \in CaseConverters :
           call = [f |-> f, input |-> input]
    /\ ret = <<>>

Converted(f, text) ==
    /\ call.f = f /\ ret = <<>>
    /\ ret' = [text |-> text]
    /\ UNCHANGED call
    /\ UNCHANGED <<wrapperVars, onceVars, retryVars, timeoutVars>>

ToCamelCaseReturns == Converted("toCamelCase", toCamelCase(call.input))
ToPascalCaseReturns == Converted("toPascalCase", toPascalCase(call.input))
ToSnakeCaseReturns == Converted("toSnakeCase", toSnakeCase(call.input))
ToKebabCaseReturns == Converted("toKebabCase", toKebabCase(call.input))
ToConstantCaseReturns == Converted("toConstantCase", toConstantCase(call.input))

CaseNext ==
    \/ ToCamelCaseReturns
    \/ ToPascalCaseReturns
    \/ ToSnakeCaseReturns
    \/ ToKebabCaseReturns
    \/ ToConstantCaseReturns

SpecCase == CaseInit /\ [][CaseNext]_vars

(***************************************************************************)
(* buildUrl(baseUrl, path, queryParams).  The URL is kept as its pathname  *)
(* and the list of its search parameters, each a <<key, value>> pair of    *)
(* texts; toString writes them in that order after the origin.  The base   *)
(* URL is an origin without a query; a string value is n letters long.     *)
(***************************************************************************)
MaxEntries == 3

Bool(n) == [t |-> "boolean", v |-> n]

ParamKeys == {KA, KB, KX}
ParamValues == {Str(0), Str(1), Num(0), Num(5), Bool(0), Bool(1), Null, Undef}

\* the entries of a queryParams object: distinct keys, in insertion order
ParamEntries ==
    UNION {{entries \in [1..n -> ParamKeys \X ParamValues] :
               \A i, j \in 1..n : entries[i][1] = entries[j][1] => i = j} :
           n \in 0..MaxEntries}

UrlPaths == {<<>>, <<"/", "p">>, <<"p">>}

\* String(value)
String(value) ==
    CASE value.t = "string" -> [i \in 1..value.v |-> "a"]
      [] value.t = "number" -> Digits(value.v)
      [] value.t = "boolean" ->
            IF value.v = 1 THEN <<"t", "r", "u", "e">> ELSE <<"f", "a", "l", "s", "e">>
      [] value.t = "null" -> <<"n", "u", "l", "l">>
      [] value.t = "undefined" -> <<"u", "n", "d", "e", "f", "i", "n", "e", "d">>

\* searchParams.set(key, value): the first parameter of that key gets the
\* value and the others of that key are removed; without one it is appended
searchParamsSet(params, key, value) ==
    IF \E i \in 1..Len(params) : params[i][1] = key
    THEN LET first == CHOOSE i \in 1..Len(params) :
                          params[i][1] = key /\ \A l \in 1..(i - 1) : params[l][1] # key
             keep(i) == i <= first \/ params[i][1] # key
             kept == {i \in 1..Len(params) : keep(i)}
             nth(n) == CHOOSE i \in kept : Cardinality({l \in kept : l < i}) = n - 1
         IN  [n \in 1..Cardinality(kept) |->
                 IF nth(n) = first THEN <<key, value>> ELSE params[nth(n)]]
    ELSE Append(params, <<key, value>>)

\* Object.entries(queryParams).forEach(([key, value]) => searchParams.set(key, String(value)))
RECURSIVE forEachEntry(_, _)
forEachEntry(entries, params) ==
    IF entries = <<>> THEN params
    ELSE forEachEntry(Tail(entries),
                      searchParamsSet(params, Head(entries)[1], String(Head(entries)[2])))

\* path is <<>> when it is not given; queryParams is given
buildUrl(path, entries) ==
    LET pathname == <<"/">>
        normalizedPath == IF path[1] = "/" THEN path ELSE <<"/">> \o path
    IN  [pathname |-> IF path # <<>>
                      THEN (IF pathname[Len(pathname)] = "/" THEN Front(pathname)
                            ELSE pathname) \o normalizedPath
                      ELSE pathname,
         searchParams |-> forEachEntry(entries, <<>>)]

BuildUrlInit ==
    /\ WrapperIdle /\ OnceIdle /\ RetryIdle /\ TimeoutIdle
    /\ now = 0
    /\ \E path \in UrlPaths : \E entries \in ParamEntries :
           call = [f |-> "buildUrl", path |-> path, queryParams |-> entries]
    /\ ret = <<>>

BuildUrlReturns ==
    /\ call.f = "buildUrl" /\ ret = <<>>
    /\ ret' = buildUrl(call.path, call.queryParams)
    /\ UNCHANGED call
    /\ UNCHANGED <<wrapperVars, onceVars, retryVars, timeoutVars>>

BuildUrlNext == BuildUrlReturns

SpecBuildUrl == BuildUrlInit /\ [][BuildUrlNext]_vars

(***************************************************************************)
(* Claims about debounce and throttle (checked under SpecWrapper).         *)
(***************************************************************************)
LastCall == wcalls[Len(wcalls)]

\* The wrapper calls so far form one burst: each less than ms after the
\* previous one.
Burst ==
    /\ Len(wcalls) >= 1
    /\ \A i \in 2..Len(wcalls) : wcalls[i].at - wcalls[i - 1].at < ms

\* C1: debounce -- after a burst of n >= 1 calls (each less than ms after the
\* previous, no cancel), fn is not invoked while the last call's timer is
\* pending; that timer is the only one, is due ms after the last call and
\* carries the last call's arguments; once it has fired fn has been invoked
\* exactly once in total, from the timer (never inside a wrapper call), with
\* the last call's arguments and not earlier than ms after the last call.
C1_DebounceBurst ==
    (kind = "debounce" /\ ~cancelled /\ Burst) =>
        IF w.timers = {}
        THEN /\ Len(w.calls) = 1
             /\ w.calls[1].args = LastCall.args
             /\ w.calls[1].at >= LastCall.at + ms
             /\ w.calls[1].during = 0
        ELSE /\ w.calls = <<>>
             /\ Cardinality(w.timers) = 1
             /\ \A tm \in w.timers :
                   tm.due = LastCall.at + ms /\ tm.args = LastCall.args

C1_Witness ==
    /\ kind = "debounce" /\ ~cancelled /\ Burst
    /\ Len(wcalls) >= 3
    /\ wcalls[1].at < wcalls[2].at
    /\ wcalls[1].args # LastCall.args
    /\ w.timers = {}
    /\ Len(w.calls) = 1

\* The case of C2: a fresh throttle wrapper, called exactly twice at the same
\* instant, at a clock time >= ms, never cancelled.
C2_Case ==
    /\ kind = "throttle" /\ ~cancelled
    /\ Len(wcalls) = 2
    /\ wcalls[1].at = wcalls[2].at
    /\ wcalls[1].at >= ms

\* What C2 says of that case: fn ran once inside the first call with the first
\* call's arguments and not inside the second; the second call's arguments
\* wait in one timer due at the end of the interval, and once it has fired
\* fn has run exactly twice, the second time from the timer with the second
\* call's arguments.
C2_Outcome ==
    /\ Len(w.calls) >= 1
    /\ w.calls[1] = [args |-> wcalls[1].args, at |-> wcalls[1].at, during |-> 1]
    /\ IF w.timers # {}
       THEN /\ Len(w.calls) = 1
            /\ Cardinality(w.timers) = 1
            /\ \A tm \in w.timers :
                  tm.due = wcalls[1].at + ms /\ tm.args = wcalls[2].args
       ELSE /\ Len(w.calls) = 2
            /\ w.calls[2].during = 0
            /\ w.calls[2].args = wcalls[2].args
            /\ w.calls[2].at >= wcalls[1].at + ms

\* C2 as stated, for every interval ms (ms = 0 included): two calls at the
\* same instant give one synchronous invocation and one trailing invocation.
C2_AsStated == C2_Case => C2_Outcome

\* C2 (amended): the same for every interval ms > 0.
C2_ThrottleTwoCalls == (C2_Case /\ ms > 0) => C2_Outcome

C2_Witness ==
    /\ C2_Case /\ ms > 0
    /\ wcalls[1].args # wcalls[2].args
    /\ w.timers = {}
    /\ Len(w.calls) = 2

\* C3: throttle -- every trailing invocation of fn (one made by the timer)
\* carries the arguments of the most recent wrapper call, that is of the last
\* call suppressed during the interval, however many were suppressed.
C3_TrailingCarriesLatest ==
    [][(/\ kind = "throttle"
        /\ Len(w'.calls) = Len(w.calls) + 1
        /\ w'.calls[Len(w'.calls)].during = 0)
       => w'.calls[Len(w'.calls)].args = LastCall.args]_vars

\* C4: throttle -- any two successive invocations of fn, immediate or
\* trailing, are at least ms apart.
C4_ThrottleSpacing ==
    kind = "throttle" =>
        \A j \in 2..Len(w.calls) : w.calls[j].at - w.calls[j - 1].at >= ms

C4_Witness ==
    /\ kind = "throttle" /\ ms >= 2 /\ cancelled
    /\ Len(w.calls) >= 2
    /\ w.calls[1].during # 0
    /\ w.calls[2].during = 0

\* C5: cancel() discards the pending call -- from a cancel() until the next
\* wrapper call nothing is scheduled and fn is not invoked; and a cancel()
\* made with nothing pending changes nothing that follows: the wrapper has
\* the same scheduled callbacks and fn the same invocations as in the run
\* (sh) that was given the same calls and firings without those cancels.
C5_CancelDiscards ==
    /\ quiet => (w.timers = {} /\ Len(w.calls) = callsAtCancel)
    /\ w.timers = sh.timers
    /\ w.calls = sh.calls

C5_Witness ==
    /\ kind = "debounce"
    /\ nopCancel /\ ~quiet
    /\ callsAtCancel >= 1
    /\ Len(w.calls) > callsAtCancel

(***************************************************************************)
(* Claims about once (checked under SpecOnce).                             *)
(***************************************************************************)
\* C10: once -- fn is invoked at most once, by the first wrapper call and
\* with its arguments; if that invocation returned v (falsy or not), every
\* wrapper call so far, whatever its arguments, returned v.
C10_OnceFirstResult ==
    /\ Len(oFn) <= 1
    /\ Len(oRets) >= 1 => (Len(oFn) = 1 /\ oFn[1].args = oRets[1].args)
    /\ (Len(oFn) = 1 /\ oFn[1].out.type = "return") =>
          \A i \in 1..Len(oRets) : oRets[i].out = oFn[1].out

C10_Witness ==
    /\ Len(oRets) >= 3
    /\ oFn[1].out = [type |-> "return", val |-> "0"]
    /\ oRets[2].args # oRets[1].args
    /\ oRets[3].out.val = "0"

(***************************************************************************)
(* Claims about retry (checked under SpecRetry).                           *)
(***************************************************************************)
AllFailed(log) == \A i \in 1..Len(log) : ~log[i].ok

RECURSIVE SumSeq(_)
SumSeq(q) == IF q = <<>> THEN 0 ELSE q[1] + SumSeq(Tail(q))

\* C6: retry -- attempts are made one at a time (fn is in progress exactly
\* when retry awaits it), at most retries+1 of them, and none after a
\* success; retry resolves exactly on the first success, with that attempt's
\* value; it rejects exactly when retries+1 attempts have all failed, with
\* the error of the last of them.
C6_RetryAttempts ==
    /\ rStarted - Len(rLog) = (IF r.pc = "fn" THEN 1 ELSE 0)
    /\ rStarted <= r.retries + 1
    /\ AllFailed(SubSeq(rLog, 1, Len(rLog) - 1))
    /\ r.pc = "resolved" <=> (rLog # <<>> /\ rLog[Len(rLog)].ok)
    /\ r.pc = "resolved" => r.result = rLog[Len(rLog)].val
    /\ r.pc = "rejected" <=> (Len(rLog) = r.retries + 1 /\ AllFailed(rLog))
    /\ r.pc = "rejected" => (r.result = rLog[Len(rLog)].val /\ rStarted = r.retries + 1)

C6_Witness ==
    /\ r.pc = "rejected"
    /\ r.retries >= 2
    /\ rLog[1].val # rLog[Len(rLog)].val
    /\ rStarted = 3

\* The number of failed attempts so far whose index is below retries.
WaitsDue ==
    LET failed == Cardinality({i \in 1..Len(rLog) : ~rLog[i].ok})
    IN  IF failed < r.retries THEN failed ELSE r.retries

\* C7: retry -- one wait follows each failed attempt i < retries (0-based),
\* of exactly delay * 2^i with backoff and delay without, and none follows
\* the final failed attempt; when every attempt failed the waits add up to
\* delay * (2^retries - 1) with backoff and delay * retries without.
C7_RetryWaits ==
    /\ Len(rWaits) = WaitsDue
    /\ \A i \in 1..Len(rWaits) :
          rWaits[i] = (IF r.backoff THEN r.delay * 2^(i - 1) ELSE r.delay)
    /\ r.pc = "rejected" =>
          /\ Len(rWaits) = r.retries
          /\ SumSeq(rWaits) = (IF r.backoff THEN r.delay * (2^r.retries - 1)
                                            ELSE r.delay * r.retries)

C7_Witness ==
    /\ r.pc = "rejected"
    /\ r.backoff
    /\ r.retries = 3
    /\ r.delay = 2
    /\ rWaits = <<2, 4, 8>>

(***************************************************************************)
(* Claims about timeout (checked under SpecTimeout).                       *)
(***************************************************************************)
OpSettled == op.state \in {"fulfilled", "rejected"}

\* The timer's callback ran while the operation was still pending.
TimerWon == toTimer = "fired" /\ (~OpSettled \/ op.afterTimer)

\* C8: timeout -- the returned promise reports at most one settlement and is
\* settled as soon as the operation or the timer has completed; the outcome
\* it holds is the one it reported first; when the operation settled before
\* ms had elapsed (and whenever it settled before the timer's callback ran)
\* that outcome is the operation's own; when the timer's callback ran first
\* it is a rejection whose message is `message` if given (the empty string
\* included) and 'Timed out after {ms}ms' otherwise.
C8_TimeoutOutcome ==
    /\ Len(toLog) <= 1
    /\ (OpSettled \/ toTimer = "fired") => to.state # "pending"
    /\ to.state # "pending" => toLog = <<[state |-> to.state, value |-> to.value]>>
    /\ (OpSettled /\ op.at < to.ms) => ~op.afterTimer
    /\ (OpSettled /\ ~op.afterTimer) =>
          (to.state = op.will.state /\ to.value = op.will.value)
    /\ TimerWon =>
          /\ to.state = "rejected"
          /\ to.value = (IF to.message = <<>>
                         THEN "Timed out after " \o ToString(to.ms) \o "ms"
                         ELSE to.message[1])

C8_Witness ==
    /\ TimerWon /\ OpSettled
    /\ to.ms = 2
    /\ to.message = <<"">>
    /\ op.will.state = "fulfilled"
    /\ to.state = "rejected" /\ to.value = ""

\* C9: timeout -- when the timer wins, the operation is left as it was: it is
\* still pending and still able to settle, or it has settled with exactly the
\* outcome it has without timeout.
C9_OperationUntouched ==
    TimerWon =>
        IF op.state = "pending"
        THEN ENABLED OpSettles
        ELSE op.state = op.will.state /\ op.value = op.will.value

C9_Witness ==
    /\ TimerWon /\ OpSettled
    /\ to.state = "rejected"
    /\ op.state = "fulfilled" /\ op.value = "done"
    /\ op.at > to.ms

(***************************************************************************)
(* Claims about catchError (checked under SpecCatchError).                 *)
(***************************************************************************)
CatchErrorDone == call # <<>> /\ call.f = "catchError" /\ ret # <<>>

\* e is an instance of at least one class of the list
Listed(e, list) == \E i \in 1..Len(list) : instanceof(e.of, list[i])

\* C11: catchError(fn, errorsToCatch) -- when fn resolves with v the result is
\* exactly {data: v, ok: true} (no error field); when fn fails with e and
\* errorsToCatch is omitted or e is an instance of a listed class the result is
\* exactly {error: e, ok: false} (no data field); otherwise the returned promise
\* rejects with the same e.  No result has both a data and an error field.
C11_CatchErrorShape ==
    CatchErrorDone =>
        LET out == call.outcome
            etc == call.errorsToCatch
        IN  /\ out.type = "resolve" =>
                /\ ret.state = "fulfilled"
                /\ DOMAIN ret.value = {"data", "ok"}
                /\ ret.value.data = out.value /\ ret.value.ok = TRUE
            /\ (out.type = "reject" /\ (~etc.given \/ Listed(out.value, etc.list))) =>
                /\ ret.state = "fulfilled"
                /\ DOMAIN ret.value = {"error", "ok"}
                /\ ret.value.error = out.value /\ ret.value.ok = FALSE
            /\ (out.type = "reject" /\ etc.given /\ ~Listed(out.value, etc.list)) =>
                /\ ret.state = "rejected"
                /\ ret.value = out.value
            /\ ret.state = "fulfilled" => ~({"data", "error"} \subseteq DOMAIN ret.value)

\* a failure with a class that is not listed was rethrown, and a failure of a
\* subclass of a listed class was caught
C11_Witness ==
    /\ CatchErrorDone
    /\ call.outcome.type = "reject"
    /\ call.outcome.value.of = "RangeError"
    /\ call.errorsToCatch.given
    /\ call.errorsToCatch.list = <<"TypeError", "SyntaxError">>
    /\ ret.state = "rejected"

(***************************************************************************)
(* Claims about merge (checked under SpecMerge).                           *)
(***************************************************************************)
MaxPath == 4

Keys == {KA, KB}

\* the key paths of up to MaxPath keys
Paths == UNION {[1..n -> Keys] : n \in 1..MaxPath}

Missing == [t |-> "missing", v |-> 0]
Plain == [t |-> "plain", v |-> 0]

\* what is found in value v by following the path: Missing when a key of the
\* path is not there or an inner value is not a plain mapping
RECURSIVE Look(_, _, _)
Look(h, v, path) ==
    IF path = <<>> THEN v
    ELSE IF ~isPlainObject(h, v) THEN Missing
    ELSE IF Head(path) \notin ObjectKeys(h, v.v) THEN Missing
    ELSE Look(h, h[v.v].props[Head(path)], Tail(path))

SetMax(S) == CHOOSE x \in S : \A y \in S : y <= x

InSource(i, path) == Look(call.heap, Ref(call.objects[i]), path)

\* The left-to-right fold, read off path by path.  Contributing(path) are the
\* sources whose value at the path takes part in the merged value there: the
\* sources that contribute to the enclosing mapping and have the key, from
\* the last of them that holds something other than a plain mapping.
RECURSIVE Contributing(_)
Contributing(path) ==
    IF path = <<>> THEN 1..Len(call.objects)
    ELSE LET has == {i \in Contributing(Front(path)) : InSource(i, path) # Missing}
             replaced == {i \in has : ~isPlainObject(call.heap, InSource(i, path))}
         IN  {i \in has : \A j \in replaced : i >= j}

\* the merged value at a path: Missing, a plain mapping, or the value of the
\* last contributing source
Merged(path) ==
    LET from == Contributing(path)
    IN  IF from = {} THEN Missing
        ELSE IF isPlainObject(call.heap, InSource(SetMax(from), path)) THEN Plain
        ELSE InSource(SetMax(from), path)

MergeDone == call # <<>> /\ call.f = "merge" /\ ret # <<>>

\* C12: merge(o1, ..., on) is the left-to-right fold: at every key the later
\* value replaces the earlier one wholesale, unless both are plain mappings,
\* which are merged by the same rule; merge() is {}; no source is modified.
C12_MergeFold ==
    MergeDone =>
        /\ isPlainObject(ret.heap, ret.value)
        /\ \A path \in Paths :
               LET got == Look(ret.heap, ret.value, path)
               IN  IF Merged(path) = Plain
                   THEN isPlainObject(ret.heap, got)
                   ELSE got = Merged(path)
        /\ Len(call.objects) = 0 => ObjectKeys(ret.heap, ret.value.v) = {}
        /\ SubSeq(ret.heap, 1, Len(call.heap)) = call.heap

\* {a: [1, 2]}, {a: {a: {a: 1}}}, {a: {a: {b: 1}}}: the mapping replaced the
\* array, and the mappings were merged three deep
C12_Witness ==
    /\ MergeDone
    /\ Len(call.objects) = MaxSources
    /\ \E i \in 1..Len(call.objects) :
           /\ InSource(i, <<KA>>).t = "object"
           /\ ~isPlainObject(call.heap, InSource(i, <<KA>>))
    /\ Look(ret.heap, ret.value, <<KA, KA, KA>>) = Num(1)
    /\ Look(ret.heap, ret.value, <<KA, KA, KB>>) = Num(1)

(***************************************************************************)
(* Claims about diff (checked under SpecDiff).                             *)
(***************************************************************************)
DiffDone == call # <<>> /\ call.f = "diff" /\ ret # <<>>

\* the value at a path, a key that is missing reading as undefined; Missing
\* when the path runs through something that is not a plain mapping
RECURSIVE At(_, _, _)
At(h, v, path) ==
    IF path = <<>> THEN v
    ELSE IF ~isPlainObject(h, v) THEN Missing
    ELSE At(h, get(h, v.v, Head(path)), Tail(path))

InA(path) == At(call.heap, Ref(call.a), path)
InB(path) == At(call.heap, Ref(call.b), path)

\* deep equality: the same primitive, arrays of equal items, or plain
\* mappings with the same keys and equal values
RECURSIVE DeepEq(_, _, _)
DeepEq(h, x, y) ==
    IF x.t # "object" \/ y.t # "object" THEN x = y
    ELSE IF h[x.v].kind # h[y.v].kind THEN FALSE
    ELSE IF h[x.v].kind = "Array"
    THEN /\ Len(h[x.v].items) = Len(h[y.v].items)
         /\ \A i \in 1..Len(h[x.v].items) : DeepEq(h, h[x.v].items[i], h[y.v].items[i])
    ELSE /\ ObjectKeys(h, x.v) = ObjectKeys(h, y.v)
         /\ \A k \in ObjectKeys(h, x.v) : DeepEq(h, get(h, x.v, k), get(h, y.v, k))

\* deep equality that takes a key holding undefined for a missing key
RECURSIVE DeepEqValues(_, _, _)
DeepEqValues(h, x, y) ==
    IF isPlainObject(h, x) /\ isPlainObject(h, y)
    THEN \A k \in ObjectKeys(h, x.v) \cup ObjectKeys(h, y.v) :
             DeepEqValues(h, get(h, x.v, k), get(h, y.v, k))
    ELSE DeepEq(h, x, y)

BothPlain(path) ==
    isPlainObject(call.heap, InA(path)) /\ isPlainObject(call.heap, InB(path))

Differ(path) == ~DeepEq(call.heap, InA(path), InB(path))

\* the mappings at the path are compared key by key: a and b themselves, and
\* below them every pair of differing plain mappings
RECURSIVE Compared(_)
Compared(path) ==
    \/ path = <<>>
    \/ Compared(Front(path)) /\ BothPlain(path) /\ Differ(path)

\* the entry of the diff at a path below compared mappings
RECURSIVE Entry(_)
Entry(path) ==
    IF ~Differ(path) THEN Missing
    ELSE IF BothPlain(path)
    THEN IF \E k \in Keys : Len(path) < MaxPath /\ Entry(Append(path, k)) # Missing
         THEN Plain ELSE Missing
    ELSE InB(path)

EntriesAsClaimed ==
    /\ isPlainObject(ret.heap, ret.value)
    /\ \A path \in Paths :
           Compared(Front(path)) =>
               LET got == Look(ret.heap, ret.value, path)
               IN  IF Entry(path) = Plain
                   THEN isPlainObject(ret.heap, got)
                   ELSE got = Entry(path)

EmptyDiff == ObjectKeys(ret.heap, ret.value.v) = {}

FlattenDone ==
    call # <<>> /\ call.f = "flattenObject" /\ DOMAIN ret = {"heap", "flat", "back", "again"}

\* no key of the mapping, at any depth, contains '.', and no value in it is
\* an empty plain mapping (a leaf that is a plain mapping)
RECURSIVE Flattenable(_, _)
Flattenable(h, a) ==
    \A k \in ObjectKeys(h, a) :
        /\ \A i \in 1..Len(k) : k[i] # "."
        /\ isPlainObject(h, get(h, a, k)) =>
               /\ ObjectKeys(h, get(h, a, k).v) # {}
               /\ Flattenable(h, get(h, a, k).v)

\* C14: for every nested mapping o whose keys contain no '.' and whose leaf
\* values are not plain mappings, unflattenObject(flattenObject(o))
\* deep-equals o, and flattenObject(unflattenObject(flattenObject(o))) equals
\* flattenObject(o).
C14_FlattenRoundTrip ==
    (FlattenDone /\ Flattenable(call.heap, call.o)) =>
        /\ DeepEq(ret.heap, ret.back, Ref(call.o))
        /\ DeepEq(ret.heap, ret.again, ret.flat)

(***************************************************************************)
(* Claims about chunk (checked under SpecChunk).                           *)
(***************************************************************************)
ChunkDone == call # <<>> /\ call.f = "chunk" /\ ret # <<>>

\* the concatenation of a sequence of sequences
RECURSIVE Concat(_)
Concat(ss) == IF ss = <<>> THEN <<>> ELSE Head(ss) \o Concat(Tail(ss))

\* C15: chunk(a, n) -- for n > 0 the chunks concatenated in order give a, every
\* chunk but the last has exactly n items, the last has between 1 and n, none
\* is empty (chunk([], n) is []); for n <= 0 the result is [].
C15_Chunk ==
    ChunkDone =>
        LET a == call.array
            n == call.size
            cs == ret.value
        IN  /\ n > 0 =>
                /\ Concat(cs) = a
                /\ \A i \in 1..(Len(cs) - 1) : Len(cs[i]) = n
                /\ cs # <<>> => Len(cs[Len(cs)]) \in 1..n
                /\ \A i \in 1..Len(cs) : cs[i] # <<>>
                /\ a = <<>> => cs = <<>>
            /\ n <= 0 => cs = <<>>

\* an array of MaxLen items cut into full chunks and a shorter last one
C15_Witness ==
    /\ ChunkDone
    /\ Len(call.array) = MaxLen /\ call.size = MaxSize
    /\ Len(ret.value) > 1
    /\ Len(ret.value[Len(ret.value)]) < call.size

(***************************************************************************)
(* Claims about uniqueArray / hasDuplicates (checked under SpecUnique).    *)
(***************************************************************************)
UniqueDone ==
    /\ call # <<>> /\ call.f = "uniqueArray"
    /\ ret.unique # <<>> /\ ret.dup # <<>>

\* the positions of a whose item has the extracted key k
Having(a, k) == {i \in 1..Len(a) : a[i].key = k}

SetMin(S) == CHOOSE x \in S : \A y \in S : x <= y

\* C16: uniqueArray(a, keyExtractor) holds exactly one element for each
\* distinct extracted key, the last element of a with that key, in the order
\* in which the keys first occur in a; a falsy key (0 or '') is a key like any
\* other; hasDuplicates(a, keyExtractor) is true exactly when that result is
\* shorter than a.
C16_UniqueLastWins ==
    UniqueDone =>
        LET a == call.array
            u == ret.unique[1]
        IN  /\ \A k \in ExtractedKeys :
                   Cardinality(Having(u, k)) = IF Having(a, k) = {} THEN 0 ELSE 1
            /\ \A i \in 1..Len(u) : u[i] = a[SetMax(Having(a, u[i].key))]
            /\ \A i, j \in 1..Len(u) :
                   i < j => SetMin(Having(a, u[i].key)) < SetMin(Having(a, u[j].key))
            /\ ret.dup[1] <=> (Len(u) < Len(a))

\* two items with the key 0 and two with the key '': the later of each pair
\* was kept, at the place of the earlier
C16_Witness ==
    /\ UniqueDone
    /\ Len(call.array) = MaxLen
    /\ Len(ret.unique[1]) = 2
    /\ ret.unique[1][1].key = NumKey(0) /\ ret.unique[1][1].val = "second"
    /\ ret.unique[1][2].key = StrKey("") /\ ret.unique[1][2].val = "second"
    /\ call.array[1].val = "first" /\ call.array[2].val = "first"
    /\ call.array[Len(call.array)].key = NumKey(0)
    /\ ret.dup[1]

(***************************************************************************)
(* Claims about the array operations' effects (checked under SpecArrays).  *)
(***************************************************************************)
ArraysDone ==
    /\ call # <<>>
    /\ call.f \in {"shuffle", "sortBy", "compact", "difference", "intersection",
                   "uniqueArray", "chunk"}
    /\ ret # <<>>

\* C17: shuffle, sortBy, compact, difference, intersection (of one or more
\* arrays), uniqueArray and chunk leave their input arrays as they were and
\* return a newly created array, not the same object as any input, so that a
\* later change of the result changes no input.
C17_NewArrayReturned ==
    (ArraysDone /\ Len(call.arrays) >= 1) =>
        /\ \A i \in 1..Len(call.arrays) : ret.value.v # call.arrays[i]
        /\ ret.value.v > Len(call.heap)
        /\ \A i \in 1..Len(call.arrays) :
               itemsOf(ret.heap, call.arrays[i]) = itemsOf(call.heap, call.arrays[i])

(***************************************************************************)
(* Claims about escapeHTML / unescapeHTML (checked under SpecHTML).        *)
(***************************************************************************)
HTMLDone ==
    call # <<>> /\ call.f = "escapeHTML" /\ DOMAIN ret = {"e", "ue", "u", "eu"}

\* C18 as stated: for every string s of the five reserved characters,
\* unescapeHTML(escapeHTML(s)) = s and escapeHTML(unescapeHTML(s)) = s.
C18_AsStated ==
    HTMLDone => ret.ue = call.s /\ ret.eu = call.s

\* C18: for every string s of the five reserved characters,
\* unescapeHTML(escapeHTML(s)) = s; unescapeHTML leaves s as it is (s holds no
\* entity), so escapeHTML(unescapeHTML(s)) = escapeHTML(s), which is s only
\* for the empty string.
C18_UnescapeInvertsEscape ==
    HTMLDone =>
        /\ ret.ue = call.s
        /\ ret.u = call.s
        /\ ret.eu = ret.e
        /\ ret.eu = call.s <=> call.s = <<>>

\* a string of MaxStr reserved characters, the quote and the ampersand among
\* them, escaped and unescaped both ways round
C18_Witness ==
    /\ HTMLDone
    /\ Len(call.s) = MaxStr
    /\ call.s[1] = "'" /\ call.s[Len(call.s)] = "&"
    /\ Len(ret.e) > Len(call.s)
    /\ ret.eu # call.s

(***************************************************************************)
(* Claims about formatBytes / toBytes (checked under SpecBytes).           *)
(***************************************************************************)
BytesDone ==
    call # <<>> /\ call.f = "formatBytes" /\ DOMAIN ret = {"text", "back"}

\* the byte count is a unit boundary K^i, i in 0..5
UnitBoundary == call.bytes.m = 1 /\ call.bytes.e \in 0..(Len(sizes) - 1)

\* C19: for b = 1024^i, i in 0..5, toBytes(formatBytes(b)) = b.
C19_BytesRoundTrip ==
    (BytesDone /\ UnitBoundary /\ call.decimals = 2) => ret.back = call.bytes

(***************************************************************************)
(* Claim about normalize                                                   *)
(***************************************************************************)
NormalizeDone == call.f = "normalize" /\ ret # <<>>

\* the values the claim lists: '', NaN, an invalid Date, an empty array, Set,
\* Map or plain mapping, null, undefined
SemanticallyEmpty(value) ==
    \/ value.t = "string" /\ value.n = 0
    \/ value.t = "number" /\ value.nan
    \/ value.t = "object" /\ value.cls = "Date" /\ value.nan
    \/ value.t = "object" /\ value.cls \in {"Array", "Set", "Map", "Object"} /\ value.n = 0
    \/ value.t \in {"null", "undefined"}

\* C20: normalize(v) is null exactly when v is '', NaN, an invalid Date, an
\* empty array, Set, Map or plain mapping, null or undefined; every other
\* value (0, false, functions, regular expressions, class instances without
\* own enumerable fields) is returned itself.
C20_NormalizeExactly ==
    NormalizeDone =>
        IF SemanticallyEmpty(call.value) THEN ret.normalized = NullValue
        ELSE ret.normalized = call.value

(***************************************************************************)
(* Claim about truncate and slugify                                        *)
(***************************************************************************)
TextDone == call.f \in {"truncate", "slugify"} /\ ret # <<>>

\* C21: for every text, every maxLength >= 0 and both values of ellipsis the
\* result of truncate is at most maxLength long, and for every title and
\* every length >= 0 the result of slugify is at most length long.
C21_MaxOutputLength == TextDone => Len(ret.text) <= call.maxLength

(***************************************************************************)
(* Claim about the colour helpers                                          *)
(***************************************************************************)
ColourDone == call.f \in {"hexToRgb", "lighten", "darken"} /\ ret # <<>>

\* exactly 3 or exactly 6 hexadecimal digits after an optional leading '#'
ValidHex(hex) ==
    LET body == IF hex # <<>> /\ Head(hex) = "#" THEN Tail(hex) ELSE hex
    IN  /\ Len(body) \in {3, 6}
        /\ \A i \in 1..Len(body) : hexValue(body[i]) >= 0

SixDigitLowerCase(hex) ==
    /\ Len(hex) = 7 /\ hex[1] = "#"
    /\ \A i \in 2..7 : \E n \in 1..16 : HexDigits[n] = hex[i]

\* C22: for every string that is not 3 or 6 hexadecimal digits after an
\* optional '#', hexToRgb returns null and lighten and darken return the input
\* unchanged; for every valid input hexToRgb returns a colour and lighten and
\* darken return a result in 6-digit lower-case form.
C22_InvalidHexRejected ==
    ColourDone =>
        IF ValidHex(call.hex)
        THEN IF call.f = "hexToRgb" THEN ret.rgb.ok ELSE SixDigitLowerCase(ret.hex)
        ELSE IF call.f = "hexToRgb" THEN ret.rgb = NoRgb ELSE ret.hex = call.hex

(***************************************************************************)
(* Claims about isEqual                                                    *)
(***************************************************************************)
IsEqualDone == call.f = "isEqual" /\ ret # <<>>

\* the value is an object that holds a reference to itself
SelfReferential(val) ==
    /\ val.t = "object"
    /\ \/ \E key \in DOMAIN call.heap[val.v].props : call.heap[val.v].props[key] = val
       \/ \E i \in 1..Len(call.heap[val.v].items) : call.heap[val.v].items[i] = val

\* two distinct mappings, each referring to itself under the key self, with
\* the same keys
CyclicPair ==
    /\ SelfReferential(call.a) /\ SelfReferential(call.b) /\ call.a # call.b
    /\ call.heap[call.a.v].kind = "Object" /\ call.heap[call.b.v].kind = "Object"
    /\ DOMAIN call.heap[call.a.v].props = DOMAIN call.heap[call.b.v].props

\* the two mappings of a cyclic pair differ in a field that is no reference
DifferInPlainField ==
    \E key \in DOMAIN call.heap[call.a.v].props :
        /\ call.heap[call.a.v].props[key].t # "object"
        /\ call.heap[call.a.v].props[key] # call.heap[call.b.v].props[key]

\* C23: on two self-referential objects that are otherwise structurally equal
\* isEqual returns a boolean instead of recursing without end, and when the
\* two differ in a non-cyclic field it returns false.
C23_CyclicTerminates ==
    (IsEqualDone /\ CyclicPair) =>
        /\ ret.result \in {"true", "false"}
        /\ DifferInPlainField => ret.result = "false"

\* references lead to higher addresses only, so no object reaches itself
Acyclic ==
    \A addr \in 1..Len(call.heap) :
        /\ \A key \in DOMAIN call.heap[addr].props :
               call.heap[addr].props[key].t = "object" => call.heap[addr].props[key].v > addr
        /\ \A i \in 1..Len(call.heap[addr].items) :
               call.heap[addr].items[i].t = "object" => call.heap[addr].items[i].v > addr

\* array, non-array object, null/undefined or primitive
KindOf(val) ==
    IF val.t = "object" THEN call.heap[val.v].kind
    ELSE IF val.t \in {"null", "undefined"} THEN "nullish"
    ELSE "primitive"

\* the same primitive, or arrays of one length with pairwise alike items, or
\* non-array objects with one key set and pairwise alike values
RECURSIVE Alike(_, _)
Alike(a, b) ==
    IF KindOf(a) # KindOf(b) THEN FALSE
    ELSE IF KindOf(a) = "Array"
    THEN /\ Len(call.heap[a.v].items) = Len(call.heap[b.v].items)
         /\ \A i \in 1..Len(call.heap[a.v].items) :
                Alike(call.heap[a.v].items[i], call.heap[b.v].items[i])
    ELSE IF KindOf(a) = "Object"
    THEN /\ DOMAIN call.heap[a.v].props = DOMAIN call.heap[b.v].props
         /\ \A key \in DOMAIN call.heap[a.v].props :
                Alike(call.heap[a.v].props[key], call.heap[b.v].props[key])
    ELSE a = b

\* C24: on acyclic values isEqual(a, b) is true only when a and b are the same
\* primitive, or arrays of the same length with pairwise equal elements, or
\* non-array objects with the same key set and pairwise equal values; values
\* of different kinds are never reported equal; isEqual(a, b) = isEqual(b, a).
C24_StructuralEquality ==
    (IsEqualDone /\ ret.swapped # "none" /\ Acyclic) =>
        /\ ret.result = "true" => Alike(call.a, call.b)
        /\ ret.result = ret.swapped

(***************************************************************************)
(* Claim about the case converters                                         *)
(***************************************************************************)
CaseDone == call.f \in CaseConverters /\ ret # <<>>

IsUpper(c) == toLowerCase(c) # c
IsLower(c) == toUpperCase(c) # c

\* written in camelCase or PascalCase: letters only, at least one
CamelOrPascal(str) == str # <<>> /\ \A i \in 1..Len(str) : IsUpper(str[i]) \/ IsLower(str[i])

\* a word starts at an upper-case letter that follows a lower-case one, or
\* that is followed by a lower-case one (the last letter of an acronym run
\* starts the next word)
WordStart(str, i) ==
    \/ i = 1
    \/ /\ IsUpper(str[i])
       /\ \/ IsLower(str[i - 1])
          \/ i < Len(str) /\ IsLower(str[i + 1])

\* the lower-cased words of a camelCase or PascalCase text
RECURSIVE CamelWords(_, _)
CamelWords(str, i) ==
    IF i > Len(str) THEN <<>>
    ELSE LET next == IF \E n \in (i + 1)..Len(str) : WordStart(str, n)
                     THEN CHOOSE n \in (i + 1)..Len(str) :
                              WordStart(str, n) /\ \A l \in (i + 1)..(n - 1) : ~WordStart(str, l)
                     ELSE Len(str) + 1
         IN  <<lowerCased(SubSeq(str, i, next - 1))>> \o CamelWords(str, next)

Capitalized(word) == <<toUpperCase(word[1])>> \o Tail(word)

\* C25: for an input written in camelCase or PascalCase the converters split
\* at the camel-case boundaries: toSnakeCase joins the lower-cased words with
\* '_', toKebabCase with '-', toConstantCase gives the upper-cased snake form,
\* toCamelCase the camelCase form and toPascalCase the PascalCase form.
C25_CamelBoundaries ==
    (CaseDone /\ CamelOrPascal(call.input)) =>
        LET words == CamelWords(call.input, 1)
            caps == [i \in 1..Len(words) |-> Capitalized(words[i])]
        IN  ret.text =
              CASE call.f = "toSnakeCase" -> join(words, <<"_">>)
                [] call.f = "toKebabCase" -> join(words, <<"-">>)
                [] call.f = "toConstantCase" -> upperCased(join(words, <<"_">>))
                [] call.f = "toCamelCase" -> words[1] \o join(Tail(caps), <<>>)
                [] call.f = "toPascalCase" -> join(caps, <<>>)

(***************************************************************************)
(* Claim about buildUrl                                                    *)
(***************************************************************************)
BuildUrlDone == call.f = "buildUrl" /\ ret # <<>>

\* the parameters the claim expects for the entries: none for undefined, an
\* empty value for null, the string form for every other value
RECURSIVE Emitted(_)
Emitted(entries) ==
    IF entries = <<>> THEN <<>>
    ELSE (IF Head(entries)[2] = Undef THEN <<>>
          ELSE IF Head(entries)[2] = Null THEN << <<Head(entries)[1], <<>>>> >>
          ELSE << <<Head(entries)[1], String(Head(entries)[2])>> >>)
             \o Emitted(Tail(entries))

\* C26: buildUrl emits the query parameters in entry order, one per entry whose
\* value is not undefined; an undefined value is omitted, a null value is
\* emitted as 'key=', every other value as its string form.
C26_QueryParams == BuildUrlDone => ret.searchParams = Emitted(call.queryParams)

(***************************************************************************)
(* Claims about the timer handle of debounce and throttle                  *)
(***************************************************************************)
\* a scheduled call of the wrapper is outstanding
Pending(st) == st.timers # {}

\* C27: in every reachable state of a debounce or throttle wrapper the stored
\* timer handle is non-empty exactly when a scheduled call is pending: it is
\* set when a call schedules a timer and cleared when that timer fires and
\* when cancel() is called.
C27_HandleIffPending == (w.timer # Undefined) <=> Pending(w)

\* the call arrives at or after the end of throttle's interval
LateCall(st) == kind = "throttle" /\ ms - (now - st.lastRun) <= 0

\* the step is a call of the wrapper / a timer callback / cancel()
CallStep == wcalls' # wcalls
FireStep == wcalls' = wcalls /\ Len(w'.calls) = Len(w.calls) + 1
CancelStep == wcalls' = wcalls /\ now' = now /\ w'.calls = w.calls /\ cancelled'

\* a call made while Pending keeps the wrapper Pending: debounce replaces
\* the pending timer by a new one, throttle leaves the trailing call scheduled
KeepsPending ==
    /\ Pending(w')
    /\ w'.calls = w.calls
    /\ IF kind = "debounce"
       THEN \A tm \in w'.timers : tm.id = w.nextId /\ tm.id = w'.timer
       ELSE w' = w

C29_OneTimerOutstanding ==
    /\ Cardinality(w.timers) <= 1
    /\ \A tm \in w.timers : tm.id = w.timer

\* a timer is outstanding after an earlier one has fired and another was armed
C29_Witness ==
    /\ w.nextId > 1 + 1 /\ Cardinality(w.timers) = 1
    /\ \E i \in 1..Len(w.calls) : w.calls[i].during = 0

(***************************************************************************)
(* Claim about once when fn throws                                         *)
(***************************************************************************)
\* fn threw when the first call invoked it
FirstThrew == oFn # <<>> /\ oFn[1].out.type = "throw"

\* C30: when fn throws on the first call of once(fn), the exception reaches
\* that caller, the wrapper is marked as called, fn is never invoked again,
\* and every later call returns undefined without throwing.
C30_OnceAfterThrow ==
    FirstThrew =>
        /\ oRets[1].out = oFn[1].out
        /\ o.called
        /\ Len(oFn) = 1
        /\ \A i \in (1 + 1)..Len(oRets) :
               oRets[i].out = [type |-> "return", val |-> "undefined"]

C30_Witness == FirstThrew /\ Len(oRets) >= 1 + 1 + 1

====
